---- MODULE Spec2Model ----
(***************************************************************************)
(* Model of the voxel streaming core: the chunk store (Level), the         *)
(* per-stage atomic state machine (AtomicDataState), the three job kinds   *)
(* run by the worker pool, and the frame caller (Server::get_mesh with     *)
(* select_render_chunks).                                                  *)
(*                                                                         *)
(* Atomic loads, compare_exchange calls and lock-protected slot writes are *)
(* the steps of the model: a CAS retry loop is a load step followed by a   *)
(* CAS step, so other threads can run between the two.                     *)
(*                                                                         *)
(* Voxel data, occlusion maps and meshes are kept symbolically: a value    *)
(* records the inputs it was computed from (the chunk id a voxel block was *)
(* generated for, the seven voxel blocks an occlusion map was built from,  *)
(* the voxel block and occlusion map a mesh was built from).               *)
(***************************************************************************)
EXTENDS Integers, Sequences, FiniteSets, TLC

(***************************************************************************)
(* Bounds of the model.                                                    *)
(***************************************************************************)
\* Spec: worker threads, and jobs pushed on the pool.
NumWorkers == 2

MaxJobs == 2

\* ServerSpec: worker threads, get_mesh calls, length of a desired list.
NumServerWorkers == 1

MaxFrames == 2

MaxDesired == 2

\* MixedSpec: jobs pushed on the pool beside the get_mesh calls.
MaxMixedJobs == 1

MaxMixedFrames == 1

\* AtomicSpec: threads calling the AtomicDataState operations on one stage,
\* and calls per thread.
NumCallers == 2

MaxCalls == 3

\* LoadedSpec: get_mesh calls, the first of them loading the world.
MaxLoadedFrames == 3

\* SolidSpec: worker threads, jobs pushed on the pool, solid_at calls.
NumSolidWorkers == 1

MaxSolidJobs == 2

MaxSolidCalls == 1

\* The world of get_mesh's bucket-by-bucket copy: workers and get_mesh calls.
NumCopyWorkers == 1

MaxCopyFrames == 2

\* The highest lod of the ChunkIDs parent and chunk_overlaps are called on.
MaxPairLod == 2

\* The world of flood_fill alone: get_mesh calls and Frustum::max_chunks.
MaxVisitFrames == 1

MaxVisitChunks == 12

\* PanicSpec: worker threads, and jobs pushed on the pool.
NumPanicWorkers == 1

MaxPanicJobs == 2

\* EquivSpec: worker threads, and jobs pushed before the two runs compared.
NumEquivWorkers == 1

MaxEquivJobs == 2

\* QueueSpec: the largest capacity of an ArrayQueue is 2^MaxCapLog2, and
\* the values pushed are 1..MaxQueueValue.
MaxCapLog2 == 2

MaxQueueValue == 2

\* LockSpec: two worker threads and the thread of the frame, which calls
\* get_mesh and solid_at.
NumLockWorkers == 2

\* LodSpec: worker threads and get_mesh calls on the flood-fill path.
NumLodWorkers == 1

MaxLodFrames == 2

\* FloodSpec: worker threads, get_mesh calls on the flood-fill path, and the
\* largest max_chunks of a Frustum.
NumFloodWorkers == 1

MaxFloodFrames == 2

MaxChunks == 5

(***************************************************************************)
(* Program constants.                                                      *)
(***************************************************************************)
MAX_LOD == 8

(***************************************************************************)
(* ChunkID (chunk.rs)                                                      *)
(***************************************************************************)
ChunkID(l, p) == [lod |-> l, pos |-> p]

RECURSIVE Pow2(_)
Pow2(n) == IF n = 0 THEN 1 ELSE 2 * Pow2(n - 1)

\* IVec3 >> n: a per-component arithmetic shift, i.e. floor division by 2^n.
Shr(p, n) == [i \in 1..3 |-> p[i] \div Pow2(n)]

VecAdd(p, q) == [i \in 1..3 |-> p[i] + q[i]]

\* Mutant: a parent whose position is halved towards zero.
parent_truncating(id) ==
    ChunkID(id.lod + 1,
            [i \in 1..3 |-> IF id.pos[i] >= 0 THEN id.pos[i] \div 2
                            ELSE -((-id.pos[i]) \div 2)])

parent(id) == ChunkID(id.lod + 1, Shr(id.pos, 1))

\* The chunk ids jobs are pushed for: two lod-0 neighbours and their parent.
IdA == ChunkID(0, <<0, 0, 0>>)

IdB == ChunkID(0, <<1, 0, 0>>)

IdP == ChunkID(1, <<0, 0, 0>>)

Ids == {IdA, IdB, IdP}

(***************************************************************************)
(* DataState and AtomicDataState (chunk.rs).  Each operation is a loop of  *)
(* load and compare_exchange; `seen` is the value the pending iteration    *)
(* loaded ("None" before the load).  An operator takes the current value   *)
(* of the atomic and returns the new value, the new `seen` and, when the   *)
(* call returns in this step, its result in `ret` ("" while it loops).     *)
(***************************************************************************)
DataState == {"Done", "Dirty", "Generating", "GeneratingDirty"}

Cas(st, expect, new, seen, ok) ==
    IF st = expect
    THEN [st |-> new, seen |-> "None", ret |-> ok]
    ELSE [st |-> st, seen |-> "None", ret |-> ""]

\* Mutant: the second half of try_start_generating stores Generating
\* instead of compare-exchanging it.
try_start_generating_store(st, seen) ==
    IF seen = "None"
    THEN IF st = "Dirty"
         THEN [st |-> st, seen |-> st, ret |-> ""]
         ELSE [st |-> st, seen |-> "None", ret |-> "Err"]
    ELSE [st |-> "Generating", seen |-> "None", ret |-> "Ok"]

\* Mutant: try_start_generating swaps Generating in and then looks at the
\* state it replaced.
try_start_generating_swap(st, seen) ==
    [st |-> "Generating", seen |-> "None",
     ret |-> IF st = "Dirty" THEN "Ok" ELSE "Err"]

\* Mutant: try_start_generating also starts from GeneratingDirty.
try_start_generating_from_any_dirty(st, seen) ==
    IF seen = "None"
    THEN IF st \in {"Dirty", "GeneratingDirty"}
         THEN [st |-> st, seen |-> st, ret |-> ""]
         ELSE [st |-> st, seen |-> "None", ret |-> "Err"]
    ELSE Cas(st, seen, "Generating", seen, "Ok")

try_start_generating(st, seen) ==
    IF seen = "None"
    THEN IF st = "Dirty"
         THEN [st |-> st, seen |-> st, ret |-> ""]
         ELSE [st |-> st, seen |-> "None", ret |-> "Err"]
    ELSE Cas(st, "Dirty", "Generating", seen, "Ok")

\* Mutant: finish_generating takes GeneratingDirty to Done.
finish_generating_to_done(st, seen) ==
    IF seen = "None"
    THEN IF st \in {"Generating", "GeneratingDirty"}
         THEN [st |-> st, seen |-> st, ret |-> ""]
         ELSE [st |-> st, seen |-> "None", ret |-> "Return"]
    ELSE Cas(st, seen, "Done", seen, "Return")

finish_generating(st, seen) ==
    IF seen = "None"
    THEN IF st \in {"Generating", "GeneratingDirty"}
         THEN [st |-> st, seen |-> st, ret |-> ""]
         ELSE [st |-> st, seen |-> "None", ret |-> "Return"]
    ELSE IF seen = "Generating"
         THEN Cas(st, "Generating", "Done", seen, "Return")
         ELSE Cas(st, "GeneratingDirty", "Dirty", seen, "Return")

\* Mutant: mark_dirty without its Done arm.
mark_dirty_generating_only(st, seen) ==
    IF seen = "None"
    THEN IF st = "Generating"
         THEN [st |-> st, seen |-> st, ret |-> ""]
         ELSE [st |-> st, seen |-> "None", ret |-> "Return"]
    ELSE Cas(st, "Generating", "GeneratingDirty", seen, "Return")

\* Mutant: mark_dirty takes Generating to Dirty.
mark_dirty_to_dirty(st, seen) ==
    IF seen = "None"
    THEN IF st \in {"Done", "Generating"}
         THEN [st |-> st, seen |-> st, ret |-> ""]
         ELSE [st |-> st, seen |-> "None", ret |-> "Return"]
    ELSE Cas(st, seen, "Dirty", seen, "Return")

mark_dirty(st, seen) ==
    IF seen = "None"
    THEN IF st \in {"Done", "Generating"}
         THEN [st |-> st, seen |-> st, ret |-> ""]
         ELSE [st |-> st, seen |-> "None", ret |-> "Return"]
    ELSE IF seen = "Done"
         THEN Cas(st, "Done", "Dirty", seen, "Return")
         ELSE Cas(st, "Generating", "GeneratingDirty", seen, "Return")

(***************************************************************************)
(* Symbolic data values.  An Option is a sequence of length 0 or 1.        *)
(***************************************************************************)
None == << >>

Some(v) == << v >>

\* voxel::fill(VoxelType::Air)
Air == [src |-> "air"]

\* Generator::generate(chunk_id): a pure function of the id.
generate(id) == [src |-> "generator", id |-> id]

\* Mesh::new(): six empty buckets.
MeshNew == [src |-> "new"]

\* meshing::generate_mesh(chunk_id, voxel, occl_maps)
generate_mesh(id, voxel, occl) ==
    [src |-> "generate_mesh", id |-> id, voxel |-> voxel, occl |-> occl]

\* The chunks map_visible reads, in the order it reads them: the chunk
\* itself, then its +x, -x, +y, -y, +z, -z neighbours at the same lod.
MapVisibleOffsets ==
    << <<0, 0, 0>>, <<1, 0, 0>>, <<-1, 0, 0>>, <<0, 1, 0>>, <<0, -1, 0>>,
       <<0, 0, 1>>, <<0, 0, -1>> >>

(***************************************************************************)
(* State.                                                                  *)
(***************************************************************************)
VARIABLES
    chunks,      \* Level.chunks: the HashMap ChunkID -> Chunk
    task_queue,  \* Threadpool.task_queue: the FIFO injector of jobs
    workers,     \* per worker thread: its job and its position in it
    budget,      \* jobs that may still be pushed directly
    frame,       \* the frame caller: its position in Server::get_mesh
    hist         \* history: what has happened so far (never read by the code)

vars == <<chunks, task_queue, workers, budget, frame, hist>>

JobKinds == {"GenerateChunk", "GenerateMesh", "GenerateChunkAndMesh"}

Job(k, id) == [kind |-> k, id |-> id]

Stages == {"occl", "mesh"}

\* A Chunk::new whose occlusion stage starts as Dirty.
ChunkNewOcclDirty(voxel_state) ==
    [voxel_state |-> voxel_state, voxel |-> None,
     occl_state |-> "Dirty", occl |-> None,
     mesh_state |-> "Done", mesh |-> MeshNew]

\* Chunk::new(voxel_state)
ChunkNew(voxel_state) ==
    [voxel_state |-> voxel_state, voxel |-> None,
     occl_state |-> "Done", occl |-> None,
     mesh_state |-> "Done", mesh |-> MeshNew]

IdleWorker ==
    [pc |-> "idle", job |-> [kind |-> "NoJob"], seen |-> "None",
     voxel |-> None, occl_maps |-> << >>]

HistInit ==
    [inserted |-> [id \in Ids |-> 0],
     generated |-> [id \in Ids |-> 0],
     voxel_writes |-> [id \in Ids |-> 0],
     collisions |-> [id \in Ids |-> 0],
     started |-> [id \in Ids |-> [s \in Stages |-> 0]],
     finished |-> [id \in Ids |-> [s \in Stages |-> 0]],
     inval |-> [id \in Ids |-> [s \in Stages |-> FALSE]],
     redo |-> [id \in Ids |-> [s \in Stages |-> FALSE]],
     pushed |-> [id \in Ids |-> {}],
     stale |-> {},
     refused |-> {},
     flood_prev |-> << >>,
     flood_last |-> << >>,
     prev_call |-> << >>,
     call |-> << >>,
     reads |-> {},
     examined |-> {},
     equiv |-> [phase |-> "setup", id |-> IdA, base |-> << >>,
                first |-> << >>]]

\* The frame caller before its first get_mesh call, `left` calls ahead.
FrameInit(left) ==
    [pc |-> "idle", left |-> left, calls |-> 0, cam |-> <<0, 0, 0>>,
     desired |-> << >>, i |-> 1, next |-> IdA, selected |-> << >>,
     out |-> << >>, flood |-> << >>, solid |-> << >>, solid_ret |-> << >>,
     bucket |-> 1, part |-> << >>]

\* Server::new and Threadpool::new(num_threads): an empty Level, an empty
\* queue, idle workers.
InitWith(num_threads, jobs, frames) ==
    /\ chunks = << >>
    /\ task_queue = << >>
    /\ workers = [w \in 1..num_threads |-> IdleWorker]
    /\ budget = jobs
    /\ frame = FrameInit(frames)
    /\ hist = HistInit

Init == InitWith(NumWorkers, MaxJobs, 0)

(***************************************************************************)
(* Level (chunk.rs).                                                       *)
(***************************************************************************)
contains(id) == id \in DOMAIN chunks

\* A worker is inside a Level::chunk_op closure, holding the read lock of
\* Level.chunks, from the closure's first step to its last.
InChunkOp(w) ==
    \/ workers[w].pc \in {"wv_finish", "wv_dirty_occl", "wv_dirty_mesh",
                          "wo_finish", "wo_dirty_mesh", "wm_finish"}
    \/ workers[w].pc \in {"occl_try", "mesh_try"} /\ workers[w].seen # "None"

\* meshing::get_data
get_data(id) ==
    IF contains(id) /\ chunks[id].voxel # None
    THEN chunks[id].voxel[1]
    ELSE Air

StageState(c, s) == IF s = "occl" THEN c.occl_state ELSE c.mesh_state

SetStage(id, s, v) ==
    IF s = "occl"
    THEN [chunks EXCEPT ![id].occl_state = v]
    ELSE [chunks EXCEPT ![id].mesh_state = v]

(***************************************************************************)
(* Threadpool (threadpool.rs).                                             *)
(***************************************************************************)
\* Threadpool::push with a job built outside get_mesh.
Push(k, id) ==
    /\ budget > 0
    /\ budget' = budget - 1
    /\ task_queue' = Append(task_queue, Job(k, id))
    /\ hist' = [hist EXCEPT !.pushed[id] = @ \cup {k}]
    /\ UNCHANGED <<chunks, workers, frame>>

\* Job::run: where each job kind starts.
JobEntry(k) == IF k = "GenerateMesh" THEN "occl_try" ELSE "insert"

\* Mutant: a steal that leaves the job on the queue.
StealKeep(w) ==
    /\ workers[w].pc = "idle"
    /\ task_queue # << >>
    /\ workers' = [workers EXCEPT ![w] =
           [IdleWorker EXCEPT !.pc = JobEntry(Head(task_queue).kind),
                              !.job = Head(task_queue)]]
    /\ task_queue' = task_queue
    /\ UNCHANGED <<chunks, budget, frame, hist>>

\* The worker loop: task_queue.steal() and task.run().
Steal(w) ==
    /\ workers[w].pc = "idle"
    /\ task_queue # << >>
    /\ workers' = [workers EXCEPT ![w] =
           [IdleWorker EXCEPT !.pc = JobEntry(Head(task_queue).kind),
                              !.job = Head(task_queue)]]
    /\ task_queue' = Tail(task_queue)
    /\ UNCHANGED <<chunks, budget, frame, hist>>

(***************************************************************************)
(* Jobs (job.rs) and the Chunk writes they call (chunk.rs).                *)
(***************************************************************************)
\* The job returns.
Return(w) == workers' = [workers EXCEPT ![w] = IdleWorker]

Goto(w, pc) == workers' = [workers EXCEPT ![w].pc = pc, ![w].seen = "None"]

\* Mutant: Level::insert without the contains_key check.
InsertOverwrite(w) ==
    LET id == workers[w].job.id IN
    /\ workers[w].pc = "insert"
    /\ \A v \in DOMAIN workers : ~InChunkOp(v)
    /\ chunks' = [c \in DOMAIN chunks \cup {id} |->
                     IF c = id THEN ChunkNew("Generating") ELSE chunks[c]]
    /\ Goto(w, "generate")
    /\ hist' = [hist EXCEPT !.inserted[id] = @ + 1]
    /\ UNCHANGED <<task_queue, budget, frame>>

\* Level::insert(chunk_id, Chunk::new(Generating)), under the write lock.
Insert(w) ==
    LET id == workers[w].job.id IN
    /\ workers[w].pc = "insert"
    /\ \A v \in DOMAIN workers : ~InChunkOp(v)
    /\ IF contains(id)
       THEN /\ Return(w)
            /\ hist' = [hist EXCEPT !.collisions[id] = @ + 1]
            /\ UNCHANGED chunks
       ELSE /\ chunks' = (id :> ChunkNew("Generating")) @@ chunks
            /\ Goto(w, "generate")
            /\ hist' = [hist EXCEPT !.inserted[id] = @ + 1]
    /\ UNCHANGED <<task_queue, budget, frame>>

\* generator.read().unwrap().generate(chunk_id)
Generate(w) ==
    LET id == workers[w].job.id IN
    /\ workers[w].pc = "generate"
    /\ workers' = [workers EXCEPT ![w].pc = "wv_voxel",
                                  ![w].voxel = Some(generate(id))]
    /\ hist' = [hist EXCEPT !.generated[id] = @ + 1]
    /\ UNCHANGED <<chunks, task_queue, budget, frame>>

\* The generator panics: the panic unwinds through Job::run and the closure
\* of the worker thread (no catch_unwind, threadpool.rs), and the thread
\* ends with its loop; what the job did before stays as it is.
GeneratePanic(w) ==
    /\ workers[w].pc = "generate"
    /\ workers' = [workers EXCEPT ![w].pc = "dead"]
    /\ UNCHANGED <<chunks, task_queue, budget, frame, hist>>

\* One step of an AtomicDataState operation `r` on stage s of the job's chunk.
ApplyAtomic(w, s, r) ==
    /\ chunks' = SetStage(workers[w].job.id, s, r.st)
    /\ IF r.ret = ""
       THEN workers' = [workers EXCEPT ![w].seen = r.seen]
       ELSE TRUE

\* Chunk::write_voxel, first statement: *self.voxel.write() = Some(voxel).
\* Entered through level.chunk_op, which returns None for an absent chunk.
WriteVoxelSlot(w) ==
    LET id == workers[w].job.id IN
    /\ workers[w].pc = "wv_voxel"
    /\ IF contains(id)
       THEN /\ chunks' = [chunks EXCEPT ![id].voxel = workers[w].voxel]
            /\ Goto(w, "wv_finish")
       ELSE /\ Return(w)
            /\ UNCHANGED chunks
    /\ UNCHANGED <<task_queue, budget, frame, hist>>

\* Chunk::write_voxel: self.occl_state.finish_generating()
WriteVoxelFinish(w) ==
    LET id == workers[w].job.id
        r == finish_generating(chunks[id].occl_state, workers[w].seen) IN
    /\ workers[w].pc = "wv_finish"
    /\ ApplyAtomic(w, "occl", r)
    /\ r.ret # "" => Goto(w, "wv_dirty_occl")
    /\ UNCHANGED <<task_queue, budget, frame, hist>>

\* Chunk::write_voxel: self.occl_state.mark_dirty()
WriteVoxelDirtyOccl(w) ==
    LET id == workers[w].job.id
        r == mark_dirty(chunks[id].occl_state, workers[w].seen) IN
    /\ workers[w].pc = "wv_dirty_occl"
    /\ ApplyAtomic(w, "occl", r)
    /\ r.ret # "" => Goto(w, "wv_dirty_mesh")
    /\ hist' = IF r.ret # "" THEN [hist EXCEPT !.inval[id]["occl"] = TRUE]
               ELSE hist
    /\ UNCHANGED <<task_queue, budget, frame>>

\* Mutant: write_voxel without self.mesh_state.mark_dirty().
WriteVoxelNoDirtyMesh(w) ==
    LET id == workers[w].job.id IN
    /\ workers[w].pc = "wv_dirty_mesh"
    /\ IF workers[w].job.kind = "GenerateChunk"
       THEN Return(w)
       ELSE Goto(w, "occl_try")
    /\ hist' = [hist EXCEPT !.voxel_writes[id] = @ + 1]
    /\ UNCHANGED <<chunks, task_queue, budget, frame>>

\* Chunk::write_voxel: self.mesh_state.mark_dirty(); then the job goes on
\* (GenerateChunkAndMesh) or returns (GenerateChunk).
WriteVoxelDirtyMesh(w) ==
    LET id == workers[w].job.id
        r == mark_dirty(chunks[id].mesh_state, workers[w].seen) IN
    /\ workers[w].pc = "wv_dirty_mesh"
    /\ ApplyAtomic(w, "mesh", r)
    /\ r.ret # "" =>
         IF workers[w].job.kind = "GenerateChunk"
         THEN Return(w)
         ELSE Goto(w, "occl_try")
    /\ hist' = IF r.ret # ""
               THEN [hist EXCEPT !.inval[id]["mesh"] = TRUE,
                                 !.voxel_writes[id] = @ + 1]
               ELSE hist
    /\ UNCHANGED <<task_queue, budget, frame>>

\* History: a GenerateMesh job returned at its occl try_start_generating.
Refused(w) ==
    IF workers[w].job.kind = "GenerateMesh"
    THEN [hist EXCEPT !.refused = @ \cup {workers[w].job.id}]
    ELSE hist

\* level.chunk_op(chunk_id, |chunk| chunk.occl_state.try_start_generating())?
OcclTryStart(w) ==
    LET id == workers[w].job.id IN
    /\ workers[w].pc = "occl_try"
    /\ IF ~contains(id)
       THEN /\ Return(w)
            /\ hist' = Refused(w)
            /\ UNCHANGED chunks
       ELSE LET r == try_start_generating(chunks[id].occl_state,
                                          workers[w].seen) IN
            /\ ApplyAtomic(w, "occl", r)
            /\ r.ret = "Err" => Return(w)
            /\ r.ret = "Ok" => Goto(w, "map_visible")
            /\ hist' = IF r.ret = "Ok"
                       THEN [hist EXCEPT !.inval[id]["occl"] = FALSE,
                                         !.started[id]["occl"] = @ + 1]
                       ELSE IF r.ret = "Err" THEN Refused(w)
                       ELSE hist
    /\ UNCHANGED <<task_queue, budget, frame>>

\* The k-th chunk map_visible reads for chunk id.
MapVisibleRead(id, k) == ChunkID(id.lod, VecAdd(id.pos, MapVisibleOffsets[k]))

\* A chunk outside Ids is never in the Level, so get_data returns Air for it
\* whenever it is called: such reads are taken within the step of the read
\* before them.  NextRead is the next read after the k-th that is of a
\* chunk of Ids.
NextRead(id, k) ==
    LET S == {j \in (k + 1)..Len(MapVisibleOffsets) : MapVisibleRead(id, j) \in Ids}
    IN  IF S = {} THEN Len(MapVisibleOffsets) + 1
        ELSE CHOOSE j \in S : \A i \in S : j <= i

\* meshing::map_visible: its seven get_data calls, one read of a chunk of
\* Ids per step.
MapVisible(w) ==
    LET id == workers[w].job.id
        k == Len(workers[w].occl_maps) + 1
        reads == [j \in 1..(NextRead(id, k) - 1) |->
                    IF j < k THEN workers[w].occl_maps[j]
                    ELSE get_data(MapVisibleRead(id, j))]
    IN
    /\ workers[w].pc = "map_visible"
    /\ workers' = [workers EXCEPT
           ![w].occl_maps = reads,
           ![w].pc = IF Len(reads) = Len(MapVisibleOffsets) THEN "wo_occl"
                     ELSE @]
    /\ UNCHANGED <<chunks, task_queue, budget, frame, hist>>

\* Chunk::write_occl, first statement: *self.occl.write() = Some(occl).
\* The chunk_op's result is dropped: the job goes on when the chunk is absent.
WriteOcclSlot(w) ==
    LET id == workers[w].job.id IN
    /\ workers[w].pc = "wo_occl"
    /\ IF contains(id)
       THEN /\ chunks' = [chunks EXCEPT ![id].occl = Some(workers[w].occl_maps)]
            /\ Goto(w, "wo_finish")
       ELSE /\ Goto(w, "mesh_try")
            /\ UNCHANGED chunks
    /\ UNCHANGED <<task_queue, budget, frame, hist>>

\* Chunk::write_occl: self.occl_state.finish_generating()
WriteOcclFinish(w) ==
    LET id == workers[w].job.id
        r == finish_generating(chunks[id].occl_state, workers[w].seen) IN
    /\ workers[w].pc = "wo_finish"
    /\ ApplyAtomic(w, "occl", r)
    /\ r.ret # "" => Goto(w, "wo_dirty_mesh")
    /\ hist' = IF r.ret # ""
               THEN [hist EXCEPT
                        !.finished[id]["occl"] = @ + 1,
                        !.redo[id]["occl"] = @ \/ (r.st = "Dirty")]
               ELSE hist
    /\ UNCHANGED <<task_queue, budget, frame>>

\* Chunk::write_occl: self.mesh_state.mark_dirty()
WriteOcclDirtyMesh(w) ==
    LET id == workers[w].job.id
        r == mark_dirty(chunks[id].mesh_state, workers[w].seen) IN
    /\ workers[w].pc = "wo_dirty_mesh"
    /\ ApplyAtomic(w, "mesh", r)
    /\ r.ret # "" => Goto(w, "mesh_try")
    /\ hist' = IF r.ret # "" THEN [hist EXCEPT !.inval[id]["mesh"] = TRUE]
               ELSE hist
    /\ UNCHANGED <<task_queue, budget, frame>>

\* level.chunk_op(chunk_id, |chunk| chunk.mesh_state.try_start_generating())?
MeshTryStart(w) ==
    LET id == workers[w].job.id IN
    /\ workers[w].pc = "mesh_try"
    /\ IF ~contains(id)
       THEN /\ Return(w)
            /\ UNCHANGED <<chunks, hist>>
       ELSE LET r == try_start_generating(chunks[id].mesh_state,
                                          workers[w].seen) IN
            /\ ApplyAtomic(w, "mesh", r)
            /\ r.ret = "Err" => Return(w)
            /\ r.ret = "Ok" =>
                 IF workers[w].job.kind = "GenerateMesh"
                 THEN Goto(w, "read_voxel")
                 ELSE Goto(w, "wm_mesh")
            /\ hist' = IF r.ret = "Ok"
                       THEN [hist EXCEPT !.inval[id]["mesh"] = FALSE,
                                         !.started[id]["mesh"] = @ + 1]
                       ELSE hist
    /\ UNCHANGED <<task_queue, budget, frame>>

\* generate_mesh only: level.chunk_op(chunk_id, |chunk| *chunk.voxel.read())?
\* A generate_mesh job that takes the voxel data as missing.
ReadVoxelNone(w) ==
    LET id == workers[w].job.id IN
    /\ workers[w].pc = "read_voxel"
    /\ IF contains(id)
       THEN workers' = [workers EXCEPT ![w].pc = "wm_mesh",
                                       ![w].voxel = None]
       ELSE Return(w)
    /\ UNCHANGED <<chunks, task_queue, budget, frame, hist>>

ReadVoxel(w) ==
    LET id == workers[w].job.id IN
    /\ workers[w].pc = "read_voxel"
    /\ IF contains(id)
       THEN workers' = [workers EXCEPT ![w].pc = "wm_mesh",
                                       ![w].voxel = chunks[id].voxel]
       ELSE Return(w)
    /\ UNCHANGED <<chunks, task_queue, budget, frame, hist>>

\* The mesh a job builds: generate_mesh(chunk_id, voxel, occl_maps), or
\* Mesh::new() when generate_mesh (the job) read no voxel data.
BuiltMesh(w) ==
    IF workers[w].voxel = None
    THEN MeshNew
    ELSE generate_mesh(workers[w].job.id, workers[w].voxel[1],
                       workers[w].occl_maps)

\* Mutant: write_mesh without finish_generating.
WriteMeshSlotOnly(w) ==
    LET id == workers[w].job.id IN
    /\ workers[w].pc = "wm_mesh"
    /\ contains(id)
    /\ chunks' = [chunks EXCEPT ![id].mesh = BuiltMesh(w)]
    /\ Return(w)
    /\ UNCHANGED <<task_queue, budget, frame, hist>>

\* get_mesh holds the read lock of chunk id's mesh (chunk_mesh.read(), from
\* its acquisition to the end of the closure).
MeshReadLocked(id) ==
    frame.pc = "copy_bucket" /\ frame.selected[frame.i] = id

\* Mutant: a write_mesh that does not wait for the mesh's lock.
WriteMeshSlotUnlocked(w) ==
    LET id == workers[w].job.id IN
    /\ workers[w].pc = "wm_mesh"
    /\ IF contains(id)
       THEN /\ chunks' = [chunks EXCEPT ![id].mesh = BuiltMesh(w)]
            /\ Goto(w, "wm_finish")
       ELSE /\ Return(w)
            /\ UNCHANGED chunks
    /\ UNCHANGED <<task_queue, budget, frame, hist>>

\* Chunk::write_mesh, first statement: *self.mesh.write() = mesh.
WriteMeshSlot(w) ==
    LET id == workers[w].job.id IN
    /\ workers[w].pc = "wm_mesh"
    /\ IF contains(id)
       THEN /\ ~MeshReadLocked(id)
            /\ chunks' = [chunks EXCEPT ![id].mesh = BuiltMesh(w)]
            /\ Goto(w, "wm_finish")
       ELSE /\ Return(w)
            /\ UNCHANGED chunks
    /\ UNCHANGED <<task_queue, budget, frame, hist>>

\* Chunk::write_mesh: self.mesh_state.finish_generating(); the job returns.
WriteMeshFinish(w) ==
    LET id == workers[w].job.id
        r == finish_generating(chunks[id].mesh_state, workers[w].seen) IN
    /\ workers[w].pc = "wm_finish"
    /\ ApplyAtomic(w, "mesh", r)
    /\ r.ret # "" => Return(w)
    /\ hist' = IF r.ret # ""
               THEN [hist EXCEPT
                        !.finished[id]["mesh"] = @ + 1,
                        !.redo[id]["mesh"] = @ \/ (r.st = "Dirty")]
               ELSE hist
    /\ UNCHANGED <<task_queue, budget, frame>>

\* The steps of a worker running GenerateChunk and GenerateChunkAndMesh
\* jobs, and those of GenerateMesh jobs but its read of the voxel slot.
JobStep(w) ==
    \/ Steal(w)
    \/ Insert(w)
    \/ Generate(w)
    \/ WriteVoxelSlot(w)
    \/ WriteVoxelFinish(w)
    \/ WriteVoxelDirtyOccl(w)
    \/ WriteVoxelDirtyMesh(w)
    \/ OcclTryStart(w)
    \/ MapVisible(w)
    \/ WriteOcclSlot(w)
    \/ WriteOcclFinish(w)
    \/ WriteOcclDirtyMesh(w)
    \/ MeshTryStart(w)
    \/ WriteMeshSlot(w)
    \/ WriteMeshFinish(w)

WorkerStep(w) == JobStep(w) \/ ReadVoxel(w)

\* Mutant: chunk_overlaps without its last case (a finer than b).
chunk_overlaps_coarser_first(a, b) ==
    IF a.lod = b.lod
    THEN a.pos = b.pos
    ELSE a.lod > b.lod /\ Shr(b.pos, a.lod - b.lod) = a.pos

(***************************************************************************)
(* Render-set resolver and frame caller (server.rs, frustum.rs).           *)
(***************************************************************************)
\* frustum::chunk_overlaps
chunk_overlaps(a, b) ==
    IF a.lod = b.lod
    THEN a.pos = b.pos
    ELSE IF a.lod > b.lod
         THEN Shr(b.pos, a.lod - b.lod) = a.pos
         ELSE Shr(a.pos, b.lod - a.lod) = b.pos

mesh_ready(id) == contains(id) /\ chunks[id].mesh_state = "Done"

\* select_render_chunks without the `any` test: the candidate is pushed
\* whatever the list holds.
SelectCandidateAlways(selected, candidate) ==
    LET Keep(existing) ==
            ~(chunk_overlaps(existing, candidate)
              /\ existing.lod < candidate.lod)
    IN  Append(SelectSeq(selected, Keep), candidate)

\* select_render_chunks, the end of one iteration: retain, any, push.
SelectCandidate(selected, candidate) ==
    LET Keep(existing) ==
            ~(chunk_overlaps(existing, candidate)
              /\ existing.lod < candidate.lod)
        kept == SelectSeq(selected, Keep)
    IN  IF \E k \in 1..Len(kept) :
              chunk_overlaps(kept[k], candidate) /\ kept[k].lod <= candidate.lod
        THEN kept
        ELSE Append(kept, candidate)

\* ChunkID::total_pos: pos << lod
total_pos(id) == [i \in 1..3 |-> id.pos[i] * Pow2(id.lod)]

\* get_mesh: the buckets of a chunk's mesh that are appended for a camera
\* in chunk cam.
Buckets(cam, id) ==
    LET chunk_pos == total_pos(id)
        chunk_size == Pow2(id.lod)
    IN  {b \in {"nx", "px", "ny", "py", "nz", "pz"} :
           \/ b = "nx" /\ cam[1] <= chunk_pos[1] + chunk_size
           \/ b = "px" /\ cam[1] >= chunk_pos[1]
           \/ b = "ny" /\ cam[2] <= chunk_pos[2] + chunk_size
           \/ b = "py" /\ cam[2] >= chunk_pos[2]
           \/ b = "nz" /\ cam[3] <= chunk_pos[3] + chunk_size
           \/ b = "pz" /\ cam[3] >= chunk_pos[3]}

\* The lists of desired chunk ids get_mesh draws from a frustum: as
\* Frustum::chunk_ids builds them, no two entries overlap.
DesiredLists ==
    {d \in UNION {[1..n -> Ids] : n \in 0..MaxDesired} :
        \A j, k \in 1..Len(d) : j # k => ~chunk_overlaps(d[j], d[k])}

\* The camera chunks (frustum.cam_pos / 32).
CamPositions == {<<0, 0, 0>>}

\* select_render_chunks, the parent walk from `next`: an ancestor outside
\* Ids is never in the Level, so mesh_ready is false for it whenever it is
\* called; the walk passes such ancestors within the step that reached
\* `next` and stops before the first ancestor that can be present.
RECURSIVE WalkAbsent(_)
WalkAbsent(next) ==
    IF next.lod < MAX_LOD /\ parent(next) \notin Ids
    THEN WalkAbsent(parent(next))
    ELSE next

\* Where select_render_chunks goes after mesh_ready(next) was false.
WalkOn(f, next) ==
    LET n == WalkAbsent(next) IN
    [f EXCEPT !.next = n,
              !.pc = IF n.lod < MAX_LOD THEN "sel_walk" ELSE "sel_last"]

\* get_mesh returns.
FrameReturn(f) == [f EXCEPT !.pc = "idle", !.calls = @ + 1]

\* get_mesh after select_render_chunks: the copy loop, or the return when
\* nothing was selected.
EnterCopy(f) ==
    IF f.selected = << >> THEN FrameReturn(f)
    ELSE [f EXCEPT !.pc = "copy", !.i = 1]

\* select_render_chunks: the next iteration of `for desired in chunks`.
NextDesired(f) ==
    IF f.i < Len(f.desired)
    THEN [f EXCEPT !.pc = "sel_first", !.i = @ + 1]
    ELSE EnterCopy(f)

\* History at the start of get_mesh's loops over the list d: the desired
\* chunks with a Dirty stage; no mesh_ready result seen by
\* select_render_chunks yet; for the call before this one, what it was
\* asked, what it returned and how it started; for this call, whether
\* every chunk of d is in the Level with mesh_state Done while no job is
\* queued or running, the ids in the Level, and if so the Level and the
\* pushes so far.
CallStarts(d) ==
    LET loaded == /\ \A k \in 1..Len(d) :
                         /\ d[k] \in DOMAIN chunks
                         /\ chunks[d[k]].mesh_state = "Done"
                  /\ task_queue = << >>
                  /\ \A w \in DOMAIN workers : workers[w].pc = "idle"
    IN  [hist EXCEPT
            !.stale = {id \in DOMAIN chunks :
                          /\ \E k \in 1..Len(d) : d[k] = id
                          /\ \E s \in Stages :
                                 StageState(chunks[id], s) = "Dirty"},
            !.prev_call = IF hist.call = << >> THEN << >>
                          ELSE <<[desired |-> frame.desired,
                                  cam |-> frame.cam, out |-> frame.out,
                                  start |-> hist.call[1]]>>,
            !.reads = {},
            !.call = <<[loaded |-> loaded,
                        level |-> DOMAIN chunks,
                        chunks |-> IF loaded THEN chunks ELSE << >>,
                        pushed |-> IF loaded THEN hist.pushed
                                   ELSE [id \in Ids |-> {}]]>>]

\* get_mesh is called with a frustum: its desired list and camera chunk.
GetMeshStart(d, cam) ==
    /\ frame.pc = "idle"
    /\ frame.left > 0
    /\ frame' = LET f == [frame EXCEPT !.desired = d, !.cam = cam, !.i = 1,
                                       !.left = @ - 1,
                                       !.selected = << >>, !.out = << >>]
                IN  IF d = << >> THEN FrameReturn(f)
                    ELSE [f EXCEPT !.pc = "push"]
    /\ hist' = CallStarts(d)
    /\ UNCHANGED <<chunks, task_queue, workers, budget>>

\* get_mesh's first loop without the mesh_ready test: a job for every
\* desired id.
GetMeshPushAlways ==
    LET id == frame.desired[frame.i] IN
    /\ frame.pc = "push"
    /\ task_queue' = Append(task_queue, Job("GenerateChunkAndMesh", id))
    /\ hist' = [hist EXCEPT !.pushed[id] = @ \cup {"GenerateChunkAndMesh"}]
    /\ frame' = IF frame.i < Len(frame.desired)
                THEN [frame EXCEPT !.i = @ + 1]
                ELSE [frame EXCEPT !.pc = "sel_first", !.i = 1]
    /\ UNCHANGED <<chunks, workers, budget>>

\* get_mesh, one iteration of the first loop: mesh_ready, else push a
\* GenerateChunkAndMesh job.
GetMeshPush ==
    LET id == frame.desired[frame.i] IN
    /\ frame.pc = "push"
    /\ IF mesh_ready(id)
       THEN UNCHANGED <<task_queue, hist>>
       ELSE /\ task_queue' = Append(task_queue, Job("GenerateChunkAndMesh", id))
            /\ hist' = [hist EXCEPT
                           !.pushed[id] = @ \cup {"GenerateChunkAndMesh"}]
    /\ frame' = IF frame.i < Len(frame.desired)
                THEN [frame EXCEPT !.i = @ + 1]
                ELSE [frame EXCEPT !.pc = "sel_first", !.i = 1]
    /\ UNCHANGED <<chunks, workers, budget>>

\* History: what select_render_chunks has seen mesh_ready return in this
\* call.
Observed(id) == [hist EXCEPT !.reads = @ \cup {<<id, mesh_ready(id)>>}]

\* select_render_chunks: `if !self.mesh_ready(candidate)` for the desired id.
SelectFirst ==
    LET desired == frame.desired[frame.i] IN
    /\ frame.pc = "sel_first"
    /\ frame' =
         IF mesh_ready(desired)
         THEN NextDesired([frame EXCEPT
                  !.selected = SelectCandidate(@, desired)])
         ELSE WalkOn(frame, desired)
    /\ hist' = Observed(desired)
    /\ UNCHANGED <<chunks, task_queue, workers, budget>>

\* The ancestor walk taking the parent without the mesh_ready test.
SelectWalkUnchecked ==
    LET next == parent(frame.next) IN
    /\ frame.pc = "sel_walk"
    /\ frame' = NextDesired([frame EXCEPT
                    !.selected = SelectCandidate(@, next)])
    /\ hist' = Observed(next)
    /\ UNCHANGED <<chunks, task_queue, workers, budget>>

\* select_render_chunks: one iteration of `while next.lod < MAX_LOD`.
SelectWalk ==
    LET next == parent(frame.next) IN
    /\ frame.pc = "sel_walk"
    /\ frame' =
         IF mesh_ready(next)
         THEN NextDesired([frame EXCEPT
                  !.selected = SelectCandidate(@, next)])
         ELSE WalkOn(frame, next)
    /\ hist' = Observed(next)
    /\ UNCHANGED <<chunks, task_queue, workers, budget>>

\* select_render_chunks: `if !found && !self.mesh_ready(candidate)`.
SelectLast ==
    LET candidate == frame.desired[frame.i] IN
    /\ frame.pc = "sel_last"
    /\ frame' =
         IF mesh_ready(candidate)
         THEN NextDesired([frame EXCEPT
                  !.selected = SelectCandidate(@, candidate)])
         ELSE NextDesired(frame)
    /\ hist' = Observed(candidate)
    /\ UNCHANGED <<chunks, task_queue, workers, budget>>

\* get_mesh, one iteration of the second loop: clone the chunk's mesh
\* handle, read-lock the mesh and append the buckets facing the camera.
GetMeshCopy ==
    LET id == frame.selected[frame.i]
        f == IF contains(id)
             THEN [frame EXCEPT !.out = Append(@,
                      [id |-> id, mesh |-> chunks[id].mesh,
                       buckets |-> Buckets(frame.cam, id)])]
             ELSE frame IN
    /\ frame.pc = "copy"
    /\ frame' = IF frame.i < Len(frame.selected)
                THEN [f EXCEPT !.i = @ + 1]
                ELSE FrameReturn(f)
    /\ UNCHANGED <<chunks, task_queue, workers, budget, hist>>

\* The six buckets in the order get_mesh appends them.
BucketOrder == <<"nx", "px", "ny", "py", "nz", "pz">>

\* get_mesh's copy loop is over with the current chunk.
CopyNextChunk(f) ==
    IF f.i < Len(f.selected)
    THEN [f EXCEPT !.pc = "copy", !.i = @ + 1]
    ELSE FrameReturn(f)

\* get_mesh's copy loop, one chunk:
\*   self.level.chunk_op(chunk_id, |chunk| chunk.mesh.clone())
\* takes the handle of the chunk's mesh, or goes on to the next chunk.
CopyOpen ==
    /\ frame.pc = "copy"
    /\ frame' = IF contains(frame.selected[frame.i])
                THEN [frame EXCEPT !.pc = "copy_lock"]
                ELSE CopyNextChunk(frame)
    /\ UNCHANGED <<chunks, task_queue, workers, budget, hist>>

\* let chunk_mesh = chunk_mesh.read(): a write_mesh holds the mesh's write
\* lock within its one step only, so the read lock is free to take.
CopyLock ==
    /\ frame.pc = "copy_lock"
    /\ frame' = [frame EXCEPT !.pc = "copy_bucket", !.bucket = 1,
                              !.part = << >>]
    /\ UNCHANGED <<chunks, task_queue, workers, budget, hist>>

\* One of the six `if cam_chunk_pos.. { mesh.b.append(chunk_mesh.b.clone()) }`.
CopyBucket ==
    LET id == frame.selected[frame.i]
        b == BucketOrder[frame.bucket]
    IN
    /\ frame.pc = "copy_bucket"
    /\ frame.bucket <= Len(BucketOrder)
    /\ frame' = [frame EXCEPT
           !.bucket = @ + 1,
           !.part = IF b \in Buckets(frame.cam, id)
                    THEN Append(@, [bucket |-> b, mesh |-> chunks[id].mesh])
                    ELSE @]
    /\ UNCHANGED <<chunks, task_queue, workers, budget, hist>>

\* The end of the closure: the read guard is dropped.
CopyUnlock ==
    LET id == frame.selected[frame.i]
        f == [frame EXCEPT
                 !.out = Append(@, [id |-> id, mesh |-> chunks[id].mesh,
                                    buckets |-> Buckets(frame.cam, id),
                                    part |-> frame.part]),
                 !.bucket = 1, !.part = << >>]
    IN
    /\ frame.pc = "copy_bucket"
    /\ frame.bucket > Len(BucketOrder)
    /\ frame' = CopyNextChunk(f)
    /\ UNCHANGED <<chunks, task_queue, workers, budget, hist>>

\* get_mesh with the copy of a chunk's buckets taken bucket by bucket.
CopyFrameStep ==
    \/ \E d \in DesiredLists, cam \in CamPositions : GetMeshStart(d, cam)
    \/ GetMeshPush
    \/ SelectFirst
    \/ SelectWalk
    \/ SelectLast
    \/ CopyOpen
    \/ CopyLock
    \/ CopyBucket
    \/ CopyUnlock

FrameStep ==
    \/ \E d \in DesiredLists, cam \in CamPositions : GetMeshStart(d, cam)
    \/ GetMeshPush
    \/ SelectFirst
    \/ SelectWalk
    \/ SelectLast
    \/ GetMeshCopy

(***************************************************************************)
(* Frustum::flood_fill (frustum.rs) and the get_mesh path that calls it.   *)
(* The f32 geometry is computed exactly, in half-chunk units: a vector     *)
(* named ...2 holds twice the chunk-unit coordinates.  Camera positions    *)
(* are multiples of 16 voxels, directions are axis unit vectors (or the    *)
(* zero vector), on which normalize_or_zero is the identity, and the field *)
(* of view is given by the tangent of its half angle.                      *)
(***************************************************************************)
Abs(x) == IF x < 0 THEN 0 - x ELSE x

Dot(a, b) == a[1] * b[1] + a[2] * b[2] + a[3] * b[3]

Cross(a, b) == <<a[2] * b[3] - a[3] * b[2],
                 a[3] * b[1] - a[1] * b[3],
                 a[1] * b[2] - a[2] * b[1]>>

Scale(a, k) == [i \in 1..3 |-> a[i] * k]

VecSub(p, q) == [i \in 1..3 |-> p[i] - q[i]]

\* the inputs of the Frustum
FloodCams == {<<0, 0, 0>>, <<32, 0, 0>>}

FloodDirections == {<<0, 0, 1>>, <<1, 0, 0>>}

FloodTans == {1}

FloodAspects == {1}

FloodDistances == {2}

FloodRanges == {1}

Frustums ==
    [cam_pos : FloodCams, direction : FloodDirections,
     tan_half_fov : FloodTans, aspect_ratio : FloodAspects,
     max_chunks : 0..MaxChunks, max_distance : FloodDistances,
     full_detail_range : FloodRanges]

\* cam_pos / 32.0, doubled
CamChunk2(fr) == [i \in 1..3 |-> fr.cam_pos[i] \div 16]

\* ChunkID::from_pos(cam_pos, 0): the floor of each coordinate
from_pos(fr) == ChunkID(0, [i \in 1..3 |-> fr.cam_pos[i] \div 32])

\* ChunkID::size
size(id) == Pow2(id.lod)

\* the forward, right and up vectors of flood_fill
forward(fr) ==
    IF fr.direction = <<0, 0, 0>> THEN <<0, 0, 1>> ELSE fr.direction

right(fr) ==
    IF Abs(forward(fr)[2]) = 1 THEN <<1, 0, 0>>
    ELSE Cross(<<0, 1, 0>>, forward(fr))

up(fr) == Cross(forward(fr), right(fr))

\* the closure outside_plane of in_frustum, on the doubled delta:
\* signed_center - projected_radius > 0
outside_plane(delta2, sz, normal, offset) ==
    Dot(delta2, normal) + 2 * offset
        - sz * (Abs(normal[1]) + Abs(normal[2]) + Abs(normal[3])) > 0

in_frustum(fr, chunk) ==
    LET center2 == [i \in 1..3 |-> 2 * total_pos(chunk)[i] + size(chunk)]
        delta2  == VecSub(center2, CamChunk2(fr))
        tan_y   == fr.tan_half_fov
        tan_x   == fr.tan_half_fov * fr.aspect_ratio
        f       == forward(fr)
        r       == right(fr)
        u       == up(fr)
        neg(v)  == Scale(v, -1)
    IN  ~ \/ outside_plane(delta2, size(chunk), neg(f), 0)
          \/ outside_plane(delta2, size(chunk), f, 0 - fr.max_distance)
          \/ outside_plane(delta2, size(chunk),
                           VecSub(neg(r), Scale(f, tan_x)), 0)
          \/ outside_plane(delta2, size(chunk),
                           VecSub(r, Scale(f, tan_x)), 0)
          \/ outside_plane(delta2, size(chunk),
                           VecSub(neg(u), Scale(f, tan_y)), 0)
          \/ outside_plane(delta2, size(chunk),
                           VecSub(u, Scale(f, tan_y)), 0)

\* chunk_neighbors in an order that depends on the Level: reversed for a
\* chunk the Level holds.
chunk_neighbors_by_level(chunk) ==
    IF contains(chunk)
    THEN <<ChunkID(chunk.lod, VecAdd(chunk.pos, <<0, 0, 1>>)),
           ChunkID(chunk.lod, VecAdd(chunk.pos, <<0, 0, -1>>)),
           ChunkID(chunk.lod, VecAdd(chunk.pos, <<0, 1, 0>>)),
           ChunkID(chunk.lod, VecAdd(chunk.pos, <<0, -1, 0>>)),
           ChunkID(chunk.lod, VecAdd(chunk.pos, <<1, 0, 0>>)),
           ChunkID(chunk.lod, VecAdd(chunk.pos, <<-1, 0, 0>>))>>
    ELSE <<ChunkID(chunk.lod, VecAdd(chunk.pos, <<-1, 0, 0>>)),
           ChunkID(chunk.lod, VecAdd(chunk.pos, <<1, 0, 0>>)),
           ChunkID(chunk.lod, VecAdd(chunk.pos, <<0, -1, 0>>)),
           ChunkID(chunk.lod, VecAdd(chunk.pos, <<0, 1, 0>>)),
           ChunkID(chunk.lod, VecAdd(chunk.pos, <<0, 0, -1>>)),
           ChunkID(chunk.lod, VecAdd(chunk.pos, <<0, 0, 1>>))>>

\* chunk_neighbors: -x, +x, -y, +y, -z, +z at the chunk's lod
chunk_neighbors(chunk) ==
    <<ChunkID(chunk.lod, VecAdd(chunk.pos, <<-1, 0, 0>>)),
      ChunkID(chunk.lod, VecAdd(chunk.pos, <<1, 0, 0>>)),
      ChunkID(chunk.lod, VecAdd(chunk.pos, <<0, -1, 0>>)),
      ChunkID(chunk.lod, VecAdd(chunk.pos, <<0, 1, 0>>)),
      ChunkID(chunk.lod, VecAdd(chunk.pos, <<0, 0, -1>>)),
      ChunkID(chunk.lod, VecAdd(chunk.pos, <<0, 0, 1>>))>>

\* A lod_level_at whose last arm is one above MAX_LOD.
LodOfDistanceUncapped(full_detail, dd) ==
    LET fits == {k \in 0..(MAX_LOD - 1) :
                    dd <= (2 * full_detail * Pow2(k)) * (2 * full_detail * Pow2(k))}
    IN  IF fits = {} THEN MAX_LOD + 1
        ELSE CHOOSE k \in fits : \A j \in fits : k <= j

\* the lod of a distance whose doubled square is dd: the least k below
\* MAX_LOD with dst <= full_detail * 2^k, else MAX_LOD
LodOfDistance(full_detail, dd) ==
    LET fits == {k \in 0..(MAX_LOD - 1) :
                    dd <= (2 * full_detail * Pow2(k)) * (2 * full_detail * Pow2(k))}
    IN  IF fits = {} THEN MAX_LOD
        ELSE CHOOSE k \in fits : \A j \in fits : k <= j

\* lod_level_at(full_detail, cam_pos, pos), both positions doubled
lod_level_at(full_detail, cam2, pos2) ==
    LodOfDistance(full_detail,
                  Dot(VecSub(cam2, pos2), VecSub(cam2, pos2)))

\* total_pos() & !1, doubled
EvenPos2(id) ==
    [i \in 1..3 |-> 2 * (total_pos(id)[i] - (total_pos(id)[i] % 2))]

\* flood_fill up to its loop: the queues hold the camera's chunk at lod 0.
FloodStart(fr) ==
    [fr |-> fr, chunks |-> << >>, candidates |-> <<from_pos(fr)>>,
     next_lods_candidates |-> << >>, already_queued |-> {from_pos(fr)}]

\* VisitNeighbor without the already_queued test on the neighbour.
VisitNeighborUnchecked(fl, chunk, neighbor) ==
    LET lod == lod_level_at(fl.fr.full_detail_range, CamChunk2(fl.fr),
                            EvenPos2(neighbor))
    IN  IF lod > chunk.lod
        THEN [fl EXCEPT !.next_lods_candidates = Append(@, parent(neighbor))]
        ELSE IF lod = chunk.lod
        THEN [fl EXCEPT !.candidates = Append(@, neighbor)]
        ELSE fl

\* Mutant: a neighbour whose lod is below the chunk's is queued as well.
VisitNeighborAtMost(fl, chunk, neighbor) ==
    IF neighbor \in fl.already_queued THEN fl
    ELSE LET q   == fl.already_queued \cup {neighbor}
             lod == lod_level_at(fl.fr.full_detail_range, CamChunk2(fl.fr),
                                 EvenPos2(neighbor))
         IN  IF lod > chunk.lod /\ parent(neighbor) \notin q
             THEN [fl EXCEPT !.already_queued = q \cup {parent(neighbor)},
                             !.next_lods_candidates =
                                 Append(@, parent(neighbor))]
             ELSE IF lod <= chunk.lod
             THEN [fl EXCEPT !.already_queued = q,
                             !.candidates = Append(@, neighbor)]
             ELSE [fl EXCEPT !.already_queued = q]

\* the body of `for neighbor in chunk_neighbors(chunk)` for one neighbour
VisitNeighbor(fl, chunk, neighbor) ==
    IF neighbor \in fl.already_queued THEN fl
    ELSE LET q   == fl.already_queued \cup {neighbor}
             lod == lod_level_at(fl.fr.full_detail_range, CamChunk2(fl.fr),
                                 EvenPos2(neighbor))
         IN  IF lod > chunk.lod /\ parent(neighbor) \notin q
             THEN [fl EXCEPT !.already_queued = q \cup {parent(neighbor)},
                             !.next_lods_candidates =
                                 Append(@, parent(neighbor))]
             ELSE IF lod = chunk.lod
             THEN [fl EXCEPT !.already_queued = q,
                             !.candidates = Append(@, neighbor)]
             ELSE [fl EXCEPT !.already_queued = q]

RECURSIVE VisitNeighbors(_, _, _)
VisitNeighbors(fl, chunk, k) ==
    IF k > 6 THEN fl
    ELSE CHOOSE r \in {VisitNeighbors(n, chunk, k + 1) :
                           n \in {VisitNeighbor(fl, chunk,
                                                chunk_neighbors(chunk)[k])}} :
             TRUE

\* A loop without the swap of the two queues.
NoSwap(fl) == fl

\* `if candidates.is_empty() { swap(candidates, next_lods_candidates) }`
SwapIfEmpty(fl) ==
    IF fl.candidates = << >>
    THEN [fl EXCEPT !.candidates = fl.next_lods_candidates,
                    !.next_lods_candidates = << >>]
    ELSE fl

\* One iteration of `while let Some(chunk) = candidates.pop_front()`:
\* the state after it, and whether the loop is left (by the break, or
\* because the next pop_front finds the queue empty).  The state after the
\* neighbours is bound once (singleton sets) and then swapped.
FloodIter(fl) ==
    LET chunk  == Head(fl.candidates)
        popped == [fl EXCEPT !.candidates = Tail(@)]
        pushed == [popped EXCEPT !.chunks = Append(@, chunk)]
    IN  IF in_frustum(fl.fr, chunk)
        THEN IF Len(pushed.chunks) >= fl.fr.max_chunks
             THEN [fl |-> pushed, done |-> TRUE]
             ELSE CHOOSE r \in
                      {[fl |-> n, done |-> n.candidates = << >>] :
                          n \in {SwapIfEmpty(v) :
                                    v \in {VisitNeighbors(p, chunk, 1) :
                                              p \in {pushed}}}} : TRUE
        ELSE LET n == SwapIfEmpty(popped)
             IN  [fl |-> n, done |-> n.candidates = << >>]

\* The part of the model that holds the Level follows the chunks of Ids:
\* get_mesh goes on to its loops when flood_fill's result lies within Ids,
\* and the call is left at "flooded" otherwise.
Flooded(f, fr, d) ==
    LET g == [f EXCEPT !.desired = d, !.i = 1, !.flood = << >>,
                       !.cam = [i \in 1..3 |-> fr.cam_pos[i] \div 32],
                       !.selected = << >>, !.out = << >>]
    IN  /\ frame' = IF \E k \in 1..Len(d) : d[k] \notin Ids
                    THEN [g EXCEPT !.pc = "flooded"]
                    ELSE IF d = << >> THEN FrameReturn(g)
                    ELSE [g EXCEPT !.pc = "push"]
        /\ hist' = [CallStarts(d) EXCEPT
                       !.flood_prev = hist.flood_last,
                       !.flood_last = <<[fr |-> fr, chunks |-> d]>>]

\* get_mesh on the flood-fill path with a flood_fill that lacks the
\* `max_chunks == 0` return.
GetMeshFloodNoEarlyReturn(fr) ==
    /\ frame.pc \in {"idle", "flooded"}
    /\ frame.left > 0
    /\ frame' = [frame EXCEPT !.pc = "flood", !.left = @ - 1,
                              !.flood = <<FloodStart(fr)>>]
    /\ UNCHANGED <<chunks, task_queue, workers, budget, hist>>

\* get_mesh(frustum, use_new_code = true) up to flood_fill's loop;
\* max_chunks == 0 returns the empty list at once.
GetMeshFlood(fr) ==
    /\ frame.pc \in {"idle", "flooded"}
    /\ frame.left > 0
    /\ IF fr.max_chunks = 0
       THEN Flooded([frame EXCEPT !.left = @ - 1], fr, << >>)
       ELSE /\ frame' = [frame EXCEPT !.pc = "flood", !.left = @ - 1,
                                      !.flood = <<FloodStart(fr)>>]
            /\ UNCHANGED hist
    /\ UNCHANGED <<chunks, task_queue, workers, budget>>

\* flood_fill, one iteration of its loop; the result is `chunks`.
FloodStep ==
    /\ frame.pc = "flood"
    /\ \E r \in {FloodIter(frame.flood[1])} :
           IF r.done THEN Flooded(frame, r.fl.fr, r.fl.chunks)
           ELSE /\ frame' = [frame EXCEPT !.flood = <<r.fl>>]
                /\ UNCHANGED hist
    /\ UNCHANGED <<chunks, task_queue, workers, budget>>

(***************************************************************************)
(* Server::solid_at (server.rs): the walk from lod 0 up to MAX_LOD, one    *)
(* chunk_op per step.  The answer is kept symbolically: the voxel read     *)
(* (the chunk's data and the index into it), or the `true` after the loop. *)
(***************************************************************************)
\* the world voxel coordinates solid_at is asked about
SolidWorlds == {<<0, 0, 0>>, <<33, 5, 31>>, <<40, 40, 0>>, <<-1, -33, 63>>}

\* chunk_and_local: div_euclid and rem_euclid by 32
chunk_and_local(world_voxel) ==
    [chunk_pos |-> [i \in 1..3 |-> world_voxel[i] \div 32],
     local_pos |-> [i \in 1..3 |-> world_voxel[i] % 32]]

\* voxel[x][y][z].is_physically_solid()
is_physically_solid(voxel, local_pos) ==
    [src |-> "voxel", voxel |-> voxel, at |-> local_pos]

\* the `true` returned after the loop
SolidUnknown == [src |-> "true"]

\* The closure of solid_at together with chunk_op and flatten, reading the
\* chunk's voxel data as if it were air when the slot is empty.
SolidReadEmptyAsAir(id, local_pos) ==
    IF ~contains(id) THEN None
    ELSE IF chunks[id].voxel = None
    THEN Some(is_physically_solid(Air, local_pos))
    ELSE Some(is_physically_solid(chunks[id].voxel[1], local_pos))

\* The closure of solid_at together with chunk_op and flatten: None for
\* an absent chunk and for a chunk without voxel data.
SolidRead(id, local_pos) ==
    IF ~contains(id) THEN None
    ELSE IF chunks[id].voxel = None THEN None
    ELSE Some(is_physically_solid(chunks[id].voxel[1], local_pos))

\* The step to the coarser lod that forgets the chunk's low bit.
CoarsenLocalOnly(chunk_pos, local_pos) ==
    [chunk_pos |-> [i \in 1..3 |-> chunk_pos[i] \div 2],
     local_pos |-> [i \in 1..3 |-> local_pos[i] \div 2]]

\* local_pos = ((chunk_pos & 1) << 4) | (local_pos >> 1);
\* chunk_pos = chunk_pos >> 1
Coarsen(chunk_pos, local_pos) ==
    [chunk_pos |-> [i \in 1..3 |-> chunk_pos[i] \div 2],
     local_pos |-> [i \in 1..3 |->
                       (chunk_pos[i] % 2) * 16 + local_pos[i] \div 2]]

\* solid_at(pos) up to its loop.
SolidAtCall(pos) ==
    /\ frame.pc = "idle"
    /\ frame.left > 0
    /\ frame' = [frame EXCEPT
                    !.pc = "solid", !.left = @ - 1, !.solid_ret = << >>,
                    !.solid = <<[pos |-> pos, lod |-> 0,
                                 chunk_pos |-> chunk_and_local(pos).chunk_pos,
                                 local_pos |-> chunk_and_local(pos).local_pos]>>]
    /\ hist' = [hist EXCEPT !.examined = {}]
    /\ UNCHANGED <<chunks, task_queue, workers, budget>>

\* solid_at, one iteration of `for lod in 0..=MAX_LOD`, and the return
\* after the last one.
SolidAtStep ==
    LET s  == frame.solid[1]
        id == ChunkID(s.lod, s.chunk_pos)
        r  == SolidRead(id, s.local_pos)
        c  == Coarsen(s.chunk_pos, s.local_pos)
    IN  /\ frame.pc = "solid"
        /\ frame' =
             IF r # None
             THEN [frame EXCEPT !.pc = "idle", !.solid_ret = r]
             ELSE IF s.lod < MAX_LOD
             THEN [frame EXCEPT !.solid = <<[s EXCEPT
                                               !.lod = @ + 1,
                                               !.chunk_pos = c.chunk_pos,
                                               !.local_pos = c.local_pos]>>]
             ELSE [frame EXCEPT !.pc = "idle",
                                !.solid_ret = Some(SolidUnknown)]
        /\ hist' = [hist EXCEPT !.examined =
                       @ \cup {[id |-> id, local_pos |-> s.local_pos,
                                present |-> contains(id),
                                data |-> /\ contains(id)
                                         /\ chunks[id].voxel # None]}]
        /\ UNCHANGED <<chunks, task_queue, workers, budget>>

(***************************************************************************)
(* Meshing on voxel values (src/meshing.rs, src/mesh.rs, src/voxel.rs).    *)
(* A u32 is the set of the positions of its set bits, bit 31 the most      *)
(* significant; a VoxelData3D is the function from its non-air positions   *)
(* <<x, y, z>> to their VoxelType, every other position being Air; a       *)
(* BitMap3D is a function of two indices in 0..31 to a u32.                *)
(***************************************************************************)
U32Bits == 0..31

Axis == 0..31

\* meshing::FIRST_BIT
FIRST_BIT == {31}

\* u32 >> n
ShrBits(w, n) == {i - n : i \in {j \in w : j >= n}}

\* u32 << n: the bits shifted past bit 31 are lost
ShlBits(w, n) == {i + n : i \in {j \in w : j + n <= 31}}

\* !u32
NotBits(w) == U32Bits \ w

\* enum VoxelType: `self as u8`
VoxelCode(v) ==
    CASE v = "Air" -> 0
      [] v = "CrackedStone" -> 1
      [] v = "Stone" -> 2
      [] v = "Dirt" -> 3

\* VoxelType::is_solid_u32
is_solid_u32(v) == IF VoxelCode(v) > 0 THEN FIRST_BIT ELSE {}

\* VoxelType::texture_id
texture_id(v, orientation) == VoxelCode(v) - 1

\* voxel::fill(VoxelType::Air)
FillAir == << >>

\* meshing::get_data on voxel values
get_voxels(id) ==
    IF contains(id) /\ chunks[id].voxel # None
    THEN chunks[id].voxel[1]
    ELSE FillAir

\* x_aligned[y][z] |= voxel_is_solid_u32 >> x, over the chunk's voxels
get_x_aligned_solid_map(id) ==
    LET data == get_voxels(id) IN
    [y \in Axis |-> [z \in Axis |->
        UNION {ShrBits(is_solid_u32(data[p]), p[1]) :
               p \in {q \in DOMAIN data : q[2] = y /\ q[3] = z}}]]

\* y_aligned[z][x] |= voxel_is_solid_u32 >> y
get_y_aligned_solid_map(id) ==
    LET data == get_voxels(id) IN
    [z \in Axis |-> [x \in Axis |->
        UNION {ShrBits(is_solid_u32(data[p]), p[2]) :
               p \in {q \in DOMAIN data : q[3] = z /\ q[1] = x}}]]

\* z_aligned[x][y] |= voxel_is_solid_u32 >> z
get_z_aligned_solid_map(id) ==
    LET data == get_voxels(id) IN
    [x \in Axis |-> [y \in Axis |->
        UNION {ShrBits(is_solid_u32(data[p]), p[3]) :
               p \in {q \in DOMAIN data : q[1] = x /\ q[2] = y}}]]

\* meshing::get_axis_aligned_solid_maps
get_axis_aligned_solid_maps(id) ==
    <<get_x_aligned_solid_map(id), get_y_aligned_solid_map(id),
      get_z_aligned_solid_map(id)>>

\* Mutant: the face towards -x never looks into the -x neighbour chunk.
FaceLowInner(own, low) == own \cap NotBits(ShrBits(own, 1))

\* faces[0|2|4][i][j] = own & !((own >> 1) | (low << 31))
FaceLow(own, low) ==
    own \cap NotBits(ShrBits(own, 1) \cup ShlBits(low, 31))

\* faces[1|3|5][i][j] = own & !((own << 1) | (high >> 31))
FaceHigh(own, high) ==
    own \cap NotBits(ShlBits(own, 1) \cup ShrBits(high, 31))

Neighbor(id, off) == ChunkID(id.lod, VecAdd(id.pos, off))

\* meshing::map_visible: faces 0..5 = -x, +x, -y, +y, -z, +z
map_visible(id) ==
    LET own == get_axis_aligned_solid_maps(id)
        px == get_x_aligned_solid_map(Neighbor(id, <<1, 0, 0>>))
        nx == get_x_aligned_solid_map(Neighbor(id, <<-1, 0, 0>>))
        py == get_y_aligned_solid_map(Neighbor(id, <<0, 1, 0>>))
        ny == get_y_aligned_solid_map(Neighbor(id, <<0, -1, 0>>))
        pz == get_z_aligned_solid_map(Neighbor(id, <<0, 0, 1>>))
        nz == get_z_aligned_solid_map(Neighbor(id, <<0, 0, -1>>))
        face(k, i, j) ==
            CASE k = 0 -> FaceLow(own[1][i][j], nx[i][j])
              [] k = 1 -> FaceHigh(own[1][i][j], px[i][j])
              [] k = 2 -> FaceLow(own[2][i][j], ny[i][j])
              [] k = 3 -> FaceHigh(own[2][i][j], py[i][j])
              [] k = 4 -> FaceLow(own[3][i][j], nz[i][j])
              [] k = 5 -> FaceHigh(own[3][i][j], pz[i][j])
    IN  [k \in 0..5 |-> [i \in Axis |-> [j \in Axis |-> face(k, i, j)]]]

\* The word of faces[k] that generate_mesh reads for the voxel at p, and the
\* bit of it that it tests: faces[0|1][y][z] & (FIRST_BIT >> x),
\* faces[2|3][z][x] & (FIRST_BIT >> y), faces[4|5][x][y] & (FIRST_BIT >> z).
FaceWord(faces, k, p) ==
    CASE k \in {0, 1} -> faces[k][p[2]][p[3]]
      [] k \in {2, 3} -> faces[k][p[3]][p[1]]
      [] k \in {4, 5} -> faces[k][p[1]][p[2]]

FaceBit(k, p) == ShrBits(FIRST_BIT, p[(k \div 2) + 1])

FaceSet(faces, k, p) == FaceWord(faces, k, p) \cap FaceBit(k, p) # {}

\* The order of generate_mesh's loops: x outermost, z innermost.
LoopRank(p) == p[1] * 1024 + p[2] * 32 + p[3]

RECURSIVE LoopOrder(_)
LoopOrder(S) ==
    IF S = {} THEN << >>
    ELSE LET p == CHOOSE q \in S : \A r \in S : LoopRank(q) <= LoopRank(r)
         IN  <<p>> \o LoopOrder(S \ {p})

\* Mutant: an Instance whose kind is the texture alone.
InstanceUntagged(pos, texture, lod) == [pos |-> pos, kind |-> texture]

\* Mesh::add_nx .. add_pz: Instance { pos, kind: (lod << 16) | texture }
Instance(pos, texture, lod) ==
    [pos |-> pos, kind |-> lod * 65536 + texture]

\* meshing::generate_mesh on voxel values: the six buckets in the order
\* nx, px, ny, py, nz, pz.
generate_mesh_voxels(chunk, data, faces) ==
    LET order == LoopOrder({p \in DOMAIN data : data[p] # "Air"})
        position(p) ==
            [i \in 1..3 |-> (chunk.pos[i] * 32 + p[i]) * Pow2(chunk.lod)]
        bucket(k) ==
            LET hits == SelectSeq(order, LAMBDA p : FaceSet(faces, k, p))
            IN  [n \in 1..Len(hits) |->
                    Instance(position(hits[n]),
                             texture_id(data[hits[n]], k), chunk.lod)]
    IN  [k \in 0..5 |-> bucket(k)]

\* Mesh::new()
MeshNewVoxels == [k \in 0..5 |-> << >>]

\* The chunks whose meshes are built, the voxel data they hold and the
\* states of their six neighbours.
MeshIds == {IdA, ChunkID(1, <<-1, 0, 2>>)}

MeshDatas ==
    { (<<5, 6, 7>> :> "Stone"),
      (<<5, 6, 7>> :> "Stone") @@ (<<6, 6, 7>> :> "Dirt"),
      (<<0, 0, 0>> :> "CrackedStone"),
      (<<31, 31, 31>> :> "Dirt"),
      (<<0, 31, 5>> :> "Stone") @@ (<<0, 30, 5>> :> "Stone")
          @@ (<<0, 31, 6>> :> "Dirt"),
      (<<0, 0, 0>> :> "Stone") @@ (<<31, 31, 31>> :> "Stone") }

MeshOwn == {None} \cup {Some(d) : d \in MeshDatas}

NeighborData ==
    (<<31, 0, 0>> :> "Stone") @@ (<<0, 31, 0>> :> "Stone")
    @@ (<<0, 0, 31>> :> "Stone") @@ (<<0, 31, 31>> :> "Stone")
    @@ (<<31, 0, 31>> :> "Stone") @@ (<<31, 31, 0>> :> "Stone")
    @@ (<<0, 0, 5>> :> "Dirt") @@ (<<30, 0, 0>> :> "Dirt")

AxisOffsets ==
    <<<<-1, 0, 0>>, <<1, 0, 0>>, <<0, -1, 0>>, <<0, 1, 0>>,
      <<0, 0, -1>>, <<0, 0, 1>>>>

\* Per neighbour (-x, +x, -y, +y, -z, +z): not in the Level, in the Level
\* without voxel data, or in the Level with NeighborData.
NeighborLayouts ==
    { <<"absent", "absent", "absent", "absent", "absent", "absent">>,
      <<"empty", "empty", "empty", "empty", "empty", "empty">>,
      <<"data", "data", "data", "data", "data", "data">>,
      <<"data", "absent", "empty", "data", "absent", "empty">>,
      <<"absent", "data", "data", "empty", "data", "absent">>,
      <<"empty", "empty", "absent", "absent", "empty", "data">> }

MeshLevel(id, own, layout) ==
    LET present == {k \in 1..6 : layout[k] # "absent"}
        ids == {id} \cup {Neighbor(id, AxisOffsets[k]) : k \in present}
        slot(k) == IF layout[k] = "data" THEN Some(NeighborData) ELSE None
        voxel(c) ==
            IF c = id THEN own
            ELSE slot(CHOOSE k \in present : Neighbor(id, AxisOffsets[k]) = c)
    IN  [c \in ids |-> [ChunkNew("Done") EXCEPT !.voxel = voxel(c)]]

MeshWorker(id) ==
    [pc |-> "map_visible", job |-> [kind |-> "GenerateMesh", id |-> id],
     occl_maps |-> None, mesh |-> None]

MeshingInit ==
    /\ \E id \in MeshIds, own \in MeshOwn, layout \in NeighborLayouts :
          /\ chunks = MeshLevel(id, own, layout)
          /\ workers = <<MeshWorker(id)>>
    /\ task_queue = << >>
    /\ budget = 0
    /\ frame = FrameInit(0)
    /\ hist = HistInit

\* Job::generate_mesh: let occl_maps = map_visible(&level, chunk_id)
MeshingMapVisible ==
    /\ workers[1].pc = "map_visible"
    /\ workers' = [workers EXCEPT
           ![1].occl_maps = Some(map_visible(workers[1].job.id)),
           ![1].pc = "generate_mesh"]
    /\ UNCHANGED <<chunks, task_queue, budget, frame, hist>>

\* Job::generate_mesh: voxel.map_or_else(Mesh::new, |voxel|
\* generate_mesh(chunk_id, voxel, occl_maps))
MeshingGenerate ==
    LET id == workers[1].job.id IN
    /\ workers[1].pc = "generate_mesh"
    /\ workers' = [workers EXCEPT
           ![1].mesh =
               Some(IF chunks[id].voxel = None THEN MeshNewVoxels
                    ELSE generate_mesh_voxels(id, chunks[id].voxel[1],
                                              workers[1].occl_maps[1])),
           ![1].pc = "done"]
    /\ UNCHANGED <<chunks, task_queue, budget, frame, hist>>

MeshingNext == MeshingMapVisible \/ MeshingGenerate

MeshingSpec == MeshingInit /\ [][MeshingNext]_vars

(***************************************************************************)
(* ChunkID::parent and chunk_overlaps as functions of their arguments      *)
(* (chunk.rs, frustum.rs): a caller holding two ChunkIDs calls them.       *)
(***************************************************************************)
\* The ChunkIDs of the calls: three lods, positions on both sides of zero.
PairLods == 0..MaxPairLod

PairPositions == (-4..3) \X (-2..1) \X (-1..0)

PairIds == {ChunkID(l, p) : l \in PairLods, p \in PairPositions}

PairCaller(a, b) ==
    [pc |-> "args", a |-> a, b |-> b, parent |-> None, overlaps |-> None]

PairInit ==
    /\ \E a \in PairIds, b \in PairIds : workers = <<PairCaller(a, b)>>
    /\ chunks = << >>
    /\ task_queue = << >>
    /\ budget = 0
    /\ frame = FrameInit(0)
    /\ hist = HistInit

\* a.parent()
CallParent ==
    /\ workers[1].pc = "args"
    /\ workers' = [workers EXCEPT ![1].pc = "parent",
                                  ![1].parent = Some(parent(workers[1].a))]
    /\ UNCHANGED <<chunks, task_queue, budget, frame, hist>>

\* chunk_overlaps(&a, b) and chunk_overlaps(&b, a)
CallChunkOverlaps ==
    /\ workers[1].pc = "parent"
    /\ workers' = [workers EXCEPT
           ![1].pc = "overlaps",
           ![1].overlaps =
               Some([ab |-> chunk_overlaps(workers[1].a, workers[1].b),
                     ba |-> chunk_overlaps(workers[1].b, workers[1].a)])]
    /\ UNCHANGED <<chunks, task_queue, budget, frame, hist>>

PairNext == CallParent \/ CallChunkOverlaps

PairSpec == PairInit /\ [][PairNext]_vars

(***************************************************************************)
(* ArrayQueue<T, CAP> (data_structures.rs): a ring buffer of CAP slots of  *)
(* MaybeUninit<T>, the first element at `start`, `len` elements.  A slot   *)
(* that holds no element is uninitialized.  The caller's record keeps the  *)
(* queue, whether T has drop glue, the elements pushed and not yet popped  *)
(* (history), and what the last call returned.                             *)
(***************************************************************************)
\* MaybeUninit<T>: a sequence, empty for MaybeUninit::uninit(), of the one
\* value for an initialized slot; assume_init reads that value.
Uninit == << >>

assume_init(slot) == slot[1]

\* val & !(!0 << mod_log_2): the low mod_log_2 bits of val
bitwise_mod(val, mod_log_2) == val % Pow2(mod_log_2)

\* cap.ilog2()
cap_log2(cap) == CHOOSE k \in 0..cap : Pow2(k) <= cap /\ cap < Pow2(k + 1)

\* ArrayQueue::new()
ArrayQueueNew(cap) ==
    [cap |-> cap, buffer |-> [i \in 0..(cap - 1) |-> Uninit],
     start |-> 0, len |-> 0]

\* Index / IndexMut: the slot of self[index]
SlotOf(q, index) == bitwise_mod(q.start + index, cap_log2(q.cap))

\* push_back: `self.len += 1; self[initial_len] = val`
push_back(q, val) ==
    [q EXCEPT !.len = @ + 1, !.buffer[SlotOf(q, q.len)] = <<val>>]

\* pop_front: the queue after it, and what it returns
pop_front(q) ==
    IF q.len > 0
    THEN [q |-> [q EXCEPT !.buffer[q.start] = Uninit,
                          !.start = bitwise_mod(q.start + 1, cap_log2(q.cap)),
                          !.len = @ - 1],
          ret |-> Some(assume_init(q.buffer[q.start]))]
    ELSE [q |-> q, ret |-> None]

\* first
first(q) ==
    IF q.len > 0 THEN Some(assume_init(q.buffer[q.start])) ELSE None

\* Index::index
index(q, i) == assume_init(q.buffer[SlotOf(q, i)])

\* PartialEq<[T; N]>::eq, other as a sequence
array_eq(q, other) ==
    IF q.len # Len(other) THEN FALSE
    ELSE \A idx \in 0..(q.len - 1) : index(q, idx) = other[idx + 1]

QueueCaps == {Pow2(k) : k \in 0..MaxCapLog2}

QueueValues == 1..MaxQueueValue

\* The arrays a queue is compared with: what it should hold, and all
\* arrays of up to two values.
QueueArrays(model) ==
    {model} \cup UNION {[1..n -> QueueValues] : n \in 0..2}

QueueCaller(cap, drops) ==
    [pc |-> "queue", q |-> ArrayQueueNew(cap), drops |-> drops,
     model |-> << >>, ret |-> [op |-> "new"]]

QueueInit ==
    /\ \E cap \in QueueCaps, drops \in BOOLEAN :
          workers = <<QueueCaller(cap, drops)>>
    /\ chunks = << >>
    /\ task_queue = << >>
    /\ budget = 0
    /\ frame = FrameInit(0)
    /\ hist = HistInit

\* queue.push_back(val) with len < CAP.  The assignment through IndexMut
\* drops the slot's old value, which is uninitialized: for a T with drop
\* glue that is a drop of garbage, after which the program goes on or is
\* gone.
CallPushBack(val) ==
    LET c == workers[1]
        done == [c EXCEPT !.q = push_back(c.q, val),
                          !.model = Append(@, val),
                          !.ret = [op |-> "push_back", arg |-> val]]
    IN  /\ c.pc = "queue"
        /\ c.q.len < c.q.cap
        /\ \/ workers' = <<done>>
           \/ /\ c.drops
              /\ c.q.buffer[SlotOf(c.q, c.q.len)] = Uninit
              /\ workers' = <<[done EXCEPT !.pc = "aborted"]>>
        /\ UNCHANGED <<chunks, task_queue, budget, frame, hist>>

CallPopFront ==
    LET c == workers[1] IN
    /\ c.pc = "queue"
    /\ workers' = <<[c EXCEPT !.q = pop_front(c.q).q,
                              !.model = IF @ = << >> THEN @ ELSE Tail(@),
                              !.ret = [op |-> "pop_front",
                                       val |-> pop_front(c.q).ret]]>>
    /\ UNCHANGED <<chunks, task_queue, budget, frame, hist>>

CallFirst ==
    LET c == workers[1] IN
    /\ c.pc = "queue"
    /\ workers' = <<[c EXCEPT !.ret = [op |-> "first", val |-> first(c.q)]]>>
    /\ UNCHANGED <<chunks, task_queue, budget, frame, hist>>

CallIndex(i) ==
    LET c == workers[1] IN
    /\ c.pc = "queue"
    /\ i < c.q.len
    /\ workers' = <<[c EXCEPT !.ret = [op |-> "index", arg |-> i,
                                       val |-> index(c.q, i)]]>>
    /\ UNCHANGED <<chunks, task_queue, budget, frame, hist>>

CallEq(other) ==
    LET c == workers[1] IN
    /\ c.pc = "queue"
    /\ workers' = <<[c EXCEPT !.ret = [op |-> "eq", arg |-> other,
                                       val |-> array_eq(c.q, other)]]>>
    /\ UNCHANGED <<chunks, task_queue, budget, frame, hist>>

QueueNext ==
    \/ \E val \in QueueValues : CallPushBack(val)
    \/ CallPopFront
    \/ CallFirst
    \/ \E i \in 0..(Pow2(MaxCapLog2) - 1) : CallIndex(i)
    \/ \E other \in QueueArrays(workers[1].model) : CallEq(other)

QueueSpec == QueueInit /\ [][QueueNext]_vars

(***************************************************************************)
(* The locks (chunk.rs, job.rs, meshing.rs, server.rs): the RwLock of      *)
(* Level.chunks and, per chunk, the RwLocks of voxel, occl and mesh, all    *)
(* parking_lot locks: a writer waits until nobody holds the lock, and a    *)
(* reader waits while a writer holds the lock or waits for it.  A thread   *)
(* is the sequence of lock operations of what it runs, its position in it, *)
(* the locks it holds, and whether it waits for a write lock; `chunks` is  *)
(* the Level.  A closure passed to chunk_op runs only for a chunk the      *)
(* Level holds.                                                            *)
(***************************************************************************)
LevelLock == [kind |-> "level", id |-> IdA]

DataLock(kind, id) == [kind |-> kind, id |-> id]

AcquireOp(mode, lock) == [op |-> mode, lock |-> lock]

\* the guards are dropped: at the end of chunk_op, insert, or the closure
\* of get_mesh's copy loop
ReleaseOp == [op |-> "release", lock |-> LevelLock]

\* `?` on a chunk_op that found no chunk, `return Some(())` after a failed
\* try_start_generating, the return of solid_at on a voxel found
ReturnOp == [op |-> "maybe_return", lock |-> LevelLock]

\* Level::insert: the write lock, contains_key, insert
InsertOp(id) == [op |-> "insert", lock |-> DataLock("chunk", id)]

\* level.chunk_op(id, f) for an f that takes no lock
ChunkOpOps == <<AcquireOp("read", LevelLock), ReleaseOp>>

\* level.chunk_op(id, f) for an f that takes a lock of the chunk
ChunkOpLockOps(mode, kind, id) ==
    <<AcquireOp("read", LevelLock), AcquireOp(mode, DataLock(kind, id)),
      ReleaseOp>>

\* Level::insert(id, Chunk::new(..)) and the return on Err
LevelInsertOps(id) == <<AcquireOp("write", LevelLock), InsertOp(id)>>

\* One chunk_op inside another: the Level read lock taken again while it
\* is held.
GetDataNestedOps(id) ==
    <<AcquireOp("read", LevelLock), AcquireOp("read", LevelLock),
      AcquireOp("read", DataLock("voxel", id)), ReleaseOp>>

\* meshing::get_data(level, id): chunk_op(id, |chunk| *chunk.voxel.read())
GetDataOps(id) == ChunkOpLockOps("read", "voxel", id)

\* map_visible(level, id): get_data of the chunk and its six neighbours
MapVisibleOps(id) ==
    GetDataOps(id)
        \o GetDataOps(Neighbor(id, MapVisibleOffsets[2]))
        \o GetDataOps(Neighbor(id, MapVisibleOffsets[3]))
        \o GetDataOps(Neighbor(id, MapVisibleOffsets[4]))
        \o GetDataOps(Neighbor(id, MapVisibleOffsets[5]))
        \o GetDataOps(Neighbor(id, MapVisibleOffsets[6]))
        \o GetDataOps(Neighbor(id, MapVisibleOffsets[7]))

\* Job::generate_chunk: insert, generate, chunk_op(write_voxel)
GenerateChunkOps(id) ==
    LevelInsertOps(id) \o ChunkOpLockOps("write", "voxel", id)

\* Job::generate_mesh
GenerateMeshOps(id) ==
    ChunkOpOps \o <<ReturnOp>>
        \o MapVisibleOps(id)
        \o ChunkOpLockOps("write", "occl", id)
        \o ChunkOpOps \o <<ReturnOp>>
        \o ChunkOpLockOps("read", "voxel", id)
        \o ChunkOpLockOps("write", "mesh", id)

\* Job::generate_chunk_and_mesh
GenerateChunkAndMeshOps(id) ==
    LevelInsertOps(id)
        \o ChunkOpLockOps("write", "voxel", id)
        \o ChunkOpOps \o <<ReturnOp>>
        \o MapVisibleOps(id)
        \o ChunkOpLockOps("write", "occl", id)
        \o ChunkOpOps \o <<ReturnOp>>
        \o ChunkOpLockOps("write", "mesh", id)

JobOps(job) ==
    CASE job.kind = "GenerateChunk" -> GenerateChunkOps(job.id)
      [] job.kind = "GenerateMesh" -> GenerateMeshOps(job.id)
      [] job.kind = "GenerateChunkAndMesh" -> GenerateChunkAndMeshOps(job.id)

\* Server::get_mesh for one desired chunk: mesh_ready before the push,
\* mesh_ready in select_render_chunks for the chunk and its parent, and the
\* copy: chunk_op(|chunk| chunk.mesh.clone()), then chunk_mesh.read() held
\* to the end of the closure.
GetMeshOps(id) ==
    ChunkOpOps \o ChunkOpOps \o ChunkOpOps
        \o ChunkOpOps \o <<AcquireOp("read", DataLock("mesh", id)), ReleaseOp>>

\* Server::solid_at: chunk_op with chunk.voxel.read() for the chunk of
\* each lod, from lod 0 to the first chunk with voxel data
SolidAtOps(id) ==
    ChunkOpLockOps("read", "voxel", id) \o <<ReturnOp>>
        \o ChunkOpLockOps("read", "voxel", parent(id)) \o <<ReturnOp>>
        \o ChunkOpLockOps("read", "voxel", parent(parent(id)))

\* the worker threads, and the thread of the frame
NumLockThreads == NumLockWorkers + 1

FrameThread == NumLockThreads

Thread(prog) ==
    [prog |-> prog, pc |-> 1, holds |-> {}, waiting |-> FALSE]

ThreadDone(t) == workers[t].pc > Len(workers[t].prog)

NextOp(t) == workers[t].prog[workers[t].pc]

LockHolders(lock) ==
    {t \in DOMAIN workers : \E h \in workers[t].holds : h.lock = lock}

LockWriters(lock) ==
    {t \in DOMAIN workers : [lock |-> lock, mode |-> "write"] \in workers[t].holds}

WaitingWriters(lock) ==
    {t \in DOMAIN workers :
        /\ workers[t].waiting
        /\ ~ThreadDone(t)
        /\ NextOp(t).lock = lock}

\* The closure of a chunk_op does not run for a chunk the Level lacks.
Skipped(o) == o.lock.kind # "level" /\ ~contains(o.lock.id)

LockJobs ==
    {Job(k, id) : k \in JobKinds, id \in {IdA, IdB}}

LockInit ==
    /\ \E first_job \in {Job("GenerateChunkAndMesh", IdA)},
          second_job \in LockJobs :
          workers = [t \in 1..NumLockThreads |->
              IF t = FrameThread THEN Thread(GetMeshOps(IdA) \o SolidAtOps(IdA))
              ELSE IF t = 1 THEN Thread(JobOps(first_job))
              ELSE Thread(JobOps(second_job))]
    /\ chunks = << >>
    /\ task_queue = << >>
    /\ budget = 0
    /\ frame = FrameInit(0)
    /\ hist = HistInit

\* RwLock::read: waits while a writer holds the lock or waits for it.
LockRead(t) ==
    LET o == NextOp(t) IN
    /\ ~ThreadDone(t)
    /\ o.op = "read"
    /\ IF Skipped(o)
       THEN workers' = [workers EXCEPT ![t].pc = @ + 1]
       ELSE /\ LockWriters(o.lock) = {}
            /\ WaitingWriters(o.lock) = {}
            /\ workers' = [workers EXCEPT
                   ![t].pc = @ + 1,
                   ![t].holds = @ \cup {[lock |-> o.lock, mode |-> "read"]}]
    /\ UNCHANGED <<chunks, task_queue, budget, frame, hist>>

\* RwLock::write: the thread queues up, and gets the lock when nobody
\* holds it.
LockWrite(t) ==
    LET o == NextOp(t) IN
    /\ ~ThreadDone(t)
    /\ o.op = "write"
    /\ IF Skipped(o)
       THEN workers' = [workers EXCEPT ![t].pc = @ + 1]
       ELSE IF ~workers[t].waiting
       THEN workers' = [workers EXCEPT ![t].waiting = TRUE]
       ELSE /\ LockHolders(o.lock) = {}
            /\ workers' = [workers EXCEPT
                   ![t].pc = @ + 1,
                   ![t].waiting = FALSE,
                   ![t].holds = @ \cup {[lock |-> o.lock, mode |-> "write"]}]
    /\ UNCHANGED <<chunks, task_queue, budget, frame, hist>>

\* Level::insert under the write lock: Err for a chunk that is there (the
\* job returns), else the chunk is inserted; the lock is dropped.
LockInsert(t) ==
    LET o == NextOp(t) IN
    /\ ~ThreadDone(t)
    /\ o.op = "insert"
    /\ IF contains(o.lock.id)
       THEN /\ workers' = [workers EXCEPT ![t].pc = Len(workers[t].prog) + 1,
                                          ![t].holds = {}]
            /\ UNCHANGED chunks
       ELSE /\ workers' = [workers EXCEPT ![t].pc = @ + 1, ![t].holds = {}]
            /\ chunks' = (o.lock.id :> ChunkNew("Generating")) @@ chunks
    /\ UNCHANGED <<task_queue, budget, frame, hist>>

LockRelease(t) ==
    /\ ~ThreadDone(t)
    /\ NextOp(t).op = "release"
    /\ workers' = [workers EXCEPT ![t].pc = @ + 1, ![t].holds = {}]
    /\ UNCHANGED <<chunks, task_queue, budget, frame, hist>>

LockReturn(t) ==
    /\ ~ThreadDone(t)
    /\ NextOp(t).op = "maybe_return"
    /\ \/ workers' = [workers EXCEPT ![t].pc = @ + 1]
       \/ workers' = [workers EXCEPT ![t].pc = Len(workers[t].prog) + 1]
    /\ UNCHANGED <<chunks, task_queue, budget, frame, hist>>

LockStep(t) ==
    \/ LockRead(t)
    \/ LockWrite(t)
    \/ LockInsert(t)
    \/ LockRelease(t)
    \/ LockReturn(t)

LockNext == \E t \in 1..NumLockThreads : LockStep(t)

\* Every thread goes on running.
LockSpec ==
    /\ LockInit /\ [][LockNext]_vars
    /\ \A t \in 1..NumLockThreads : WF_vars(LockStep(t))

(***************************************************************************)
(* Specifications.                                                         *)
(*   Spec       jobs of the three kinds pushed on the pool, run by         *)
(*              NumWorkers workers.                                        *)
(*   FairSpec   Spec with every worker thread scheduled fairly.            *)
(*   ServerSpec the program as Server drives it: get_mesh is the only      *)
(*              producer of jobs (GenerateChunkAndMesh jobs only).         *)
(*   MixedSpec  get_mesh calls beside jobs of the three kinds.             *)
(*   LoadedSpec ServerSpec with one call more and two desired lists.       *)
(*   OverlapSpec ServerSpec with desired lists that hold a chunk and an    *)
(*              overlapping coarser chunk.                                 *)
(*   FloodSpec  get_mesh calls that take the desired list from flood_fill. *)
(*   SolidSpec  solid_at calls beside jobs of the three kinds.             *)
(*   CopySpec   ServerSpec with the copy of a chunk's six buckets taken    *)
(*              bucket by bucket under the mesh's read lock.               *)
(*   PairSpec   (defined above) ChunkID::parent and chunk_overlaps called   *)
(*              on pairs of ChunkIDs.                                      *)
(*   VisitSpec  flood_fill alone, loop iteration by loop iteration, on     *)
(*              frustums that reach lod 1.                                 *)
(*   MeshingSpec (defined with the meshing functions above) one          *)
(*              GenerateMesh job's map_visible and generate_mesh on voxel   *)
(*              values.                                                    *)
(*   PanicSpec  FairSpec with a generator that may panic.                  *)
(*   EquivSpec  GenerateChunkAndMesh(id) beside GenerateChunk(id) followed *)
(*              by GenerateMesh(id), from the same Level.                  *)
(*   FairVisitSpec VisitSpec with the flood_fill loop scheduled fairly.    *)
(*   LodSpec    worker threads beside get_mesh calls on the flood-fill     *)
(*              path, on frustums that reach MAX_LOD.                      *)
(*   FallbackSpec ServerSpec with desired lists in which several ids fall  *)
(*              back to one ancestor.                                      *)
(*   QueueSpec  (defined with ArrayQueue above) calls on one ArrayQueue.   *)
(*   LockSpec   (defined with the locks above) the lock operations of two  *)
(*              jobs, get_mesh and solid_at, thread by thread.             *)
(***************************************************************************)
Next ==
    \/ \E k \in JobKinds, id \in Ids : Push(k, id)
    \/ \E w \in DOMAIN workers : WorkerStep(w)

Spec == Init /\ [][Next]_vars

FairSpec == Spec /\ \A w \in 1..NumWorkers : WF_vars(WorkerStep(w))

\* Jobs pushed on a pool whose generator may panic.
PanicInit == InitWith(NumPanicWorkers, MaxPanicJobs, 0)

PanicNext ==
    \/ \E k \in JobKinds, id \in Ids : Push(k, id)
    \/ \E w \in DOMAIN workers : WorkerStep(w)
    \/ \E w \in DOMAIN workers : GeneratePanic(w)

PanicSpec ==
    /\ PanicInit /\ [][PanicNext]_vars
    /\ \A w \in 1..NumPanicWorkers : WF_vars(WorkerStep(w))

\* GenerateChunkAndMesh(id) beside GenerateChunk(id) followed by
\* GenerateMesh(id): after up to MaxEquivJobs jobs of any kind, with the
\* pool quiet and id absent from the Level, the first run starts; when it
\* is over its Level is kept in the history, the Level is put back to what
\* it was, and the two jobs of the second run are pushed, each on a quiet
\* pool.
Quiet ==
    /\ task_queue = << >>
    /\ \A w \in DOMAIN workers : workers[w].pc = "idle"

EquivSetup(k, id) ==
    /\ hist.equiv.phase = "setup"
    /\ Push(k, id)

EquivFirst(id) ==
    /\ hist.equiv.phase = "setup"
    /\ Quiet
    /\ ~contains(id)
    /\ task_queue' = <<Job("GenerateChunkAndMesh", id)>>
    /\ hist' = [hist EXCEPT !.equiv = [phase |-> "first", id |-> id,
                                       base |-> chunks, first |-> << >>]]
    /\ UNCHANGED <<chunks, workers, budget, frame>>

EquivSecond ==
    /\ hist.equiv.phase = "first"
    /\ Quiet
    /\ chunks' = hist.equiv.base
    /\ task_queue' = <<Job("GenerateChunk", hist.equiv.id)>>
    /\ hist' = [hist EXCEPT !.equiv.phase = "second", !.equiv.first = chunks]
    /\ UNCHANGED <<workers, budget, frame>>

EquivMesh ==
    /\ hist.equiv.phase = "second"
    /\ Quiet
    /\ task_queue' = <<Job("GenerateMesh", hist.equiv.id)>>
    /\ hist' = [hist EXCEPT !.equiv.phase = "mesh"]
    /\ UNCHANGED <<chunks, workers, budget, frame>>

EquivInit == InitWith(NumEquivWorkers, MaxEquivJobs, 0)

EquivNext ==
    \/ \E k \in JobKinds, id \in Ids : EquivSetup(k, id)
    \/ \E id \in Ids : EquivFirst(id)
    \/ EquivSecond
    \/ EquivMesh
    \/ \E w \in DOMAIN workers : WorkerStep(w)

EquivSpec == EquivInit /\ [][EquivNext]_vars

ServerInit == InitWith(NumServerWorkers, 0, MaxFrames)

ServerNext ==
    \/ FrameStep
    \/ \E w \in DOMAIN workers : JobStep(w)

ServerSpec == ServerInit /\ [][ServerNext]_vars

MixedInit == InitWith(NumServerWorkers, MaxMixedJobs, MaxMixedFrames)

MixedNext ==
    \/ \E k \in JobKinds, id \in Ids : Push(k, id)
    \/ FrameStep
    \/ \E w \in DOMAIN workers : WorkerStep(w)

MixedSpec == MixedInit /\ [][MixedNext]_vars

\* The program as Server drives it, for one call more than ServerSpec and
\* with fewer frustums, so that calls are made on a world already loaded.
LoadedLists == {<<IdA, IdB>>, <<IdP>>}

LoadedInit == InitWith(NumServerWorkers, 0, MaxLoadedFrames)

LoadedNext ==
    \/ \E d \in LoadedLists, cam \in CamPositions : GetMeshStart(d, cam)
    \/ GetMeshPush
    \/ SelectFirst
    \/ SelectWalk
    \/ SelectLast
    \/ GetMeshCopy
    \/ \E w \in DOMAIN workers : JobStep(w)

LoadedSpec == LoadedInit /\ [][LoadedNext]_vars

\* get_mesh calls whose desired list holds a chunk and an overlapping
\* coarser chunk, in either order.
OverlapLists == {<<IdA, IdP>>, <<IdP, IdA>>, <<IdB, IdP>>, <<IdP, IdB>>}

OverlapNext ==
    \/ \E d \in OverlapLists, cam \in CamPositions : GetMeshStart(d, cam)
    \/ GetMeshPush
    \/ SelectFirst
    \/ SelectWalk
    \/ SelectLast
    \/ GetMeshCopy
    \/ \E w \in DOMAIN workers : JobStep(w)

OverlapSpec == ServerInit /\ [][OverlapNext]_vars

\* get_mesh calls whose desired list makes several ids fall back to one
\* ancestor, with and without the ancestor in the list.
FallbackLists ==
    {<<IdP>>, <<IdA, IdB>>, <<IdA, IdB, IdP>>, <<IdP, IdA, IdB>>}

FallbackNext ==
    \/ \E d \in FallbackLists, cam \in CamPositions : GetMeshStart(d, cam)
    \/ GetMeshPush
    \/ SelectFirst
    \/ SelectWalk
    \/ SelectLast
    \/ GetMeshCopy
    \/ \E w \in DOMAIN workers : JobStep(w)

FallbackSpec == ServerInit /\ [][FallbackNext]_vars

\* The flood-fill path: get_mesh(frustum, true) calls beside the workers.
FloodInit == InitWith(NumFloodWorkers, 0, MaxFloodFrames)

FloodNext ==
    \/ \E fr \in Frustums : GetMeshFlood(fr)
    \/ FloodStep
    \/ GetMeshPush
    \/ SelectFirst
    \/ SelectWalk
    \/ SelectLast
    \/ GetMeshCopy
    \/ \E w \in DOMAIN workers : WorkerStep(w)

FloodSpec == FloodInit /\ [][FloodNext]_vars

\* solid_at calls beside jobs of the three kinds.
SolidInit == InitWith(NumSolidWorkers, MaxSolidJobs, MaxSolidCalls)

SolidNext ==
    \/ \E k \in JobKinds, id \in Ids : Push(k, id)
    \/ \E pos \in SolidWorlds : SolidAtCall(pos)
    \/ SolidAtStep
    \/ \E w \in DOMAIN workers : WorkerStep(w)

SolidSpec == SolidInit /\ [][SolidNext]_vars

CopyInit == InitWith(NumCopyWorkers, 0, MaxCopyFrames)

CopyNext ==
    \/ CopyFrameStep
    \/ \E w \in DOMAIN workers : JobStep(w)

CopySpec == CopyInit /\ [][CopyNext]_vars

\* The frustums of VisitSpec: far enough and with chunks enough for
\* flood_fill to go on to lod 1, and near ones with room for every chunk
\* flood_fill finds, where the loop ends on its empty queues.
VisitFrustums ==
    [cam_pos : FloodCams, direction : {<<0, 0, 1>>, <<1, 0, 0>>, <<0, 1, 0>>},
     tan_half_fov : FloodTans, aspect_ratio : FloodAspects,
     max_chunks : (MaxVisitChunks - 4)..MaxVisitChunks,
     max_distance : {4}, full_detail_range : FloodRanges]
    \cup
    [cam_pos : FloodCams, direction : {<<0, 0, 1>>, <<1, 0, 0>>},
     tan_half_fov : FloodTans, aspect_ratio : FloodAspects,
     max_chunks : {200},
     max_distance : {1}, full_detail_range : {1, 4}]

VisitInit == InitWith(0, 0, MaxVisitFrames)

VisitNext ==
    \/ \E fr \in VisitFrustums : GetMeshFlood(fr)
    \/ FloodStep

VisitSpec == VisitInit /\ [][VisitNext]_vars

\* get_mesh on the flood-fill path, twice, beside one worker: for short
\* frustums, whose flood_fill result lies within Ids, and for a near
\* frustum with room for every chunk flood_fill finds, up to lod MAX_LOD.
ShortFrustums ==
    [cam_pos : {<<0, 0, 0>>}, direction : {<<1, 0, 0>>},
     tan_half_fov : FloodTans, aspect_ratio : FloodAspects,
     max_chunks : 1..2, max_distance : FloodDistances,
     full_detail_range : FloodRanges]

DeepFrustums ==
    [cam_pos : {<<0, 0, 0>>}, direction : {<<0, 0, 1>>},
     tan_half_fov : FloodTans, aspect_ratio : FloodAspects,
     max_chunks : {200}, max_distance : {1}, full_detail_range : {1}]

LodInit == InitWith(NumLodWorkers, 0, MaxLodFrames)

LodNext ==
    \/ \E fr \in ShortFrustums \cup DeepFrustums : GetMeshFlood(fr)
    \/ FloodStep
    \/ GetMeshPush
    \/ SelectFirst
    \/ SelectWalk
    \/ SelectLast
    \/ GetMeshCopy
    \/ \E w \in DOMAIN workers : WorkerStep(w)

LodSpec == LodInit /\ [][LodNext]_vars

\* flood_fill is a loop of the calling thread, which goes on running.
FairVisitSpec == VisitSpec /\ WF_vars(FloodStep)

(***************************************************************************)
(* The AtomicDataState operations on one stage, called concurrently        *)
(* (chunk.rs).  The stage is the mesh_state of chunk IdA.                  *)
(***************************************************************************)
AtomicOps == {"try_start_generating", "finish_generating", "mark_dirty"}

\* One load or compare_exchange of operation op.
AtomicApply(op, st, seen) ==
    CASE op = "try_start_generating" -> try_start_generating(st, seen)
      [] op = "finish_generating" -> finish_generating(st, seen)
      [] op = "mark_dirty" -> mark_dirty(st, seen)

\* A thread with `left` calls ahead, outside a call.
Caller(left) ==
    [pc |-> "idle", op |-> "", seen |-> "None", ret |-> "", left |-> left]

\* The stage starts in any state; hist counts the times the stage became
\* Dirty and the Ok results of try_start_generating, and collects the
\* state changes made.
AtomicInit ==
    \E st \in DataState :
        /\ chunks = (IdA :> [ChunkNew("Generating") EXCEPT !.mesh_state = st])
        /\ task_queue = << >>
        /\ workers = [w \in 1..NumCallers |-> Caller(MaxCalls)]
        /\ budget = 0
        /\ frame = FrameInit(0)
        /\ hist = [dirtied |-> IF st = "Dirty" THEN 1 ELSE 0,
                   oks |-> 0,
                   changes |-> {}]

\* A thread calls one of the operations.
Call(w, op) ==
    /\ workers[w].pc = "idle"
    /\ workers[w].left > 0
    /\ workers' = [workers EXCEPT ![w].pc = "call", ![w].op = op,
                                  ![w].ret = "", ![w].left = @ - 1]
    /\ UNCHANGED <<chunks, task_queue, budget, frame, hist>>

\* One load or compare_exchange of the operation a thread is in.
AtomicStep(w) ==
    LET st == chunks[IdA].mesh_state
        r == AtomicApply(workers[w].op, st, workers[w].seen) IN
    /\ workers[w].pc = "call"
    /\ chunks' = SetStage(IdA, "mesh", r.st)
    /\ workers' = IF r.ret = ""
                  THEN [workers EXCEPT ![w].seen = r.seen]
                  ELSE [workers EXCEPT ![w].pc = "idle", ![w].seen = "None",
                                       ![w].ret = r.ret]
    /\ hist' = [dirtied |-> hist.dirtied +
                            (IF r.st = "Dirty" /\ st # "Dirty" THEN 1 ELSE 0),
                oks |-> hist.oks + (IF r.ret = "Ok" THEN 1 ELSE 0),
                changes |-> IF r.st # st THEN hist.changes \cup {<<st, r.st>>}
                            ELSE hist.changes]
    /\ UNCHANGED <<task_queue, budget, frame>>

AtomicNext ==
    \/ \E w \in DOMAIN workers, op \in AtomicOps : Call(w, op)
    \/ \E w \in DOMAIN workers : AtomicStep(w)

AtomicSpec == AtomicInit /\ [][AtomicNext]_vars

(***************************************************************************)
(* Properties.                                                             *)
(***************************************************************************)
\* Worker w is between a successful try_start_generating on stage s of
\* chunk id and the end of the matching write_occl / write_mesh.
Holds(w, id, s) ==
    /\ workers[w].job.kind # "NoJob"
    /\ workers[w].job.id = id
    /\ workers[w].pc \in IF s = "occl"
                         THEN {"map_visible", "wo_occl", "wo_finish"}
                         ELSE {"read_voxel", "wm_mesh", "wm_finish"}

Holders(id, s) == {w \in DOMAIN workers : Holds(w, id, s)}

\* No job is queued or running.
Quiescent ==
    /\ task_queue = << >>
    /\ \A w \in DOMAIN workers : workers[w].pc = "idle"

Gcam == "GenerateChunkAndMesh"

\* The jobs that insert a chunk.
InsertKinds == {"GenerateChunk", "GenerateChunkAndMesh"}

\* No inserting job for id is queued or still before the end of write_voxel.
NoInsertPending(id) ==
    /\ \A k \in 1..Len(task_queue) :
          ~(task_queue[k].id = id /\ task_queue[k].kind \in InsertKinds)
    /\ \A w \in DOMAIN workers :
          ~(/\ workers[w].job.kind \in InsertKinds
            /\ workers[w].job.id = id
            /\ workers[w].pc \in {"insert", "generate", "wv_voxel", "wv_finish",
                                  "wv_dirty_occl", "wv_dirty_mesh"})

\* The chunk's mesh slot holds a mesh built by generate_mesh from the
\* chunk's generated voxels.
MeshProduced(id) ==
    /\ chunks[id].mesh.src = "generate_mesh"
    /\ chunks[id].mesh.voxel = generate(id)

\* C1: for every chunk and each of the occl and mesh stages, at most one
\* worker at a time is between a successful try_start_generating on that
\* stage and the end of its matching write_occl / write_mesh.
C1_OneGeneratorPerStage ==
    \A id \in Ids, s \in Stages : Cardinality(Holders(id, s)) <= 1

\* C1 witness: one worker generates a chunk's occlusion while another job
\* on the same chunk is at try_start_generating of that stage.
C1_Witness ==
    \E id \in Ids, w1, w2 \in DOMAIN workers :
        /\ w1 # w2
        /\ Holds(w1, id, "occl")
        /\ workers[w2].pc = "occl_try"
        /\ workers[w2].job.id = id

\* C2: over the whole execution at most one Level.insert succeeds per id,
\* the generator is called and write_voxel is performed at most once for
\* it, and once every inserting job pushed for the id has finished its
\* insert and voxel write, each has happened exactly once.
C2_OneInsertPerId ==
    \A id \in Ids :
        /\ hist.inserted[id] <= 1
        /\ hist.generated[id] <= hist.inserted[id]
        /\ hist.voxel_writes[id] <= hist.generated[id]
        /\ contains(id) <=> hist.inserted[id] = 1
        /\ (NoInsertPending(id) /\ hist.pushed[id] \cap InsertKinds # {}) =>
              /\ hist.inserted[id] = 1
              /\ hist.generated[id] = 1
              /\ hist.voxel_writes[id] = 1

\* C2 witness: two inserting jobs for one id have run; one collided while
\* the other's generation was still under way, and in the end the voxels
\* were written once.
C2_Witness ==
    \E id \in Ids :
        /\ hist.collisions[id] >= 1
        /\ hist.voxel_writes[id] = 1
        /\ Quiescent

\* C4: an invalidation (mark_dirty) that arrived since the stage's last
\* successful try_start_generating is never lost: while the generator is
\* in flight the stage is GeneratingDirty, and after its finish_generating
\* the stage is Dirty, not Done.
C4_InvalidationKept ==
    \A id \in DOMAIN chunks, s \in Stages :
        hist.inval[id][s] =>
            StageState(chunks[id], s) =
                IF Holders(id, s) # {} THEN "GeneratingDirty" ELSE "Dirty"

\* C4 witness: a finish_generating found the mesh stage GeneratingDirty and
\* left it Dirty.
C4_Witness ==
    \E id \in DOMAIN chunks :
        /\ hist.redo[id]["mesh"]
        /\ chunks[id].mesh_state = "Dirty"
        /\ Holders(id, "mesh") = {}

\* C6 (as claimed): once write_voxel has completed on a chunk, the chunk's
\* voxel_state is Done.
C6_VoxelStateDone ==
    \A id \in DOMAIN chunks :
        hist.voxel_writes[id] > 0 => chunks[id].voxel_state = "Done"

\* C8: every successful try_start_generating on an occl or mesh stage is
\* matched by exactly one finish_generating of the job that started it:
\* starts equal finishes plus the generators in flight, and a stage is
\* Generating or GeneratingDirty only while its generator is in flight.
C8_StartFinishPaired ==
    \A id \in Ids, s \in Stages :
        /\ hist.started[id][s] = hist.finished[id][s] + Cardinality(Holders(id, s))
        /\ contains(id) =>
              (StageState(chunks[id], s) \in {"Generating", "GeneratingDirty"}
                  <=> Holders(id, s) # {})

\* C8 witness: both stages of a chunk were started and finished, and every
\* job has returned.
C8_Witness ==
    \E id \in Ids :
        /\ hist.finished[id]["occl"] = 1
        /\ hist.finished[id]["mesh"] = 1
        /\ Quiescent

\* C9 (as claimed): when a chunk's occlusion was built with a same-lod
\* axial neighbour read as air and the neighbour's write_voxel has since
\* completed, the chunk's occl_state is no longer Done.
C9_NeighbourDirties ==
    \A c \in DOMAIN chunks, n \in DOMAIN chunks :
        \A k \in 2..Len(MapVisibleOffsets) :
            (/\ MapVisibleRead(c, k) = n
             /\ chunks[c].occl # None
             /\ chunks[c].occl[1][k] = Air
             /\ hist.voxel_writes[n] > 0)
            => chunks[c].occl_state # "Done"

\* C7: under fair scheduling of the workers, a chunk for whose id
\* GenerateChunkAndMesh jobs (and no job of another kind) have been pushed
\* eventually has mesh_state Done with its mesh slot written by write_mesh,
\* and from then on keeps both as long as no job of another kind is pushed
\* for the id.
C7_EventuallyMeshed ==
    /\ <>[](\A id \in Ids :
              hist.pushed[id] = {Gcam} =>
                  /\ contains(id)
                  /\ chunks[id].mesh_state = "Done"
                  /\ MeshProduced(id))
    /\ [][\A id \in Ids :
            (/\ contains(id)
             /\ chunks[id].mesh_state = "Done"
             /\ MeshProduced(id)
             /\ hist.pushed'[id] = {Gcam})
            => (chunks'[id].mesh_state = "Done" /\ MeshProduced(id)')]_vars

\* C7 witness: several GenerateChunkAndMesh jobs for one id ran (one
\* collided at insert) and the chunk is Done with its mesh written.
C7_Witness ==
    \E id \in Ids :
        /\ hist.pushed[id] = {Gcam}
        /\ hist.collisions[id] >= 1
        /\ contains(id)
        /\ chunks[id].mesh_state = "Done"
        /\ MeshProduced(id)

\* The frame caller's next step calls mesh_ready(id).
FrameReads(id) ==
    \/ frame.pc \in {"push", "sel_first", "sel_last"}
          /\ frame.desired[frame.i] = id
    \/ frame.pc = "sel_walk" /\ parent(frame.next) = id

\* C3 (as claimed): the list select_render_chunks returns never holds two
\* distinct entries that overlap.
C3_NoOverlap ==
    frame.pc \in {"copy", "idle"} =>
        \A j, k \in 1..Len(frame.selected) :
            j # k => ~chunk_overlaps(frame.selected[j], frame.selected[k])

\* C5 (as claimed): whenever a reader observes mesh_state = Done for a
\* chunk of the Level, the chunk's mesh slot holds the mesh write_mesh
\* produced from the chunk's voxel data.
C5_DoneMeansMeshed ==
    \A id \in Ids : (FrameReads(id) /\ mesh_ready(id)) => MeshProduced(id)

\* C10 (as claimed): a Dirty stage is re-run: once a get_mesh call that
\* desired a chunk with a Dirty occl or mesh stage has returned and every
\* job has run, no occl or mesh stage of that chunk is left Dirty.
C10_DirtyIsRerun ==
    \A id \in hist.stale, s \in Stages :
        (Quiescent /\ frame.pc = "idle")
            => StageState(chunks[id], s) # "Dirty"
\* C11: a job that returns at a collided insert, and a GenerateMesh job
\* that returns at its occl try_start_generating (refused, or the chunk
\* absent), changes nothing of the Level in any of its steps: the key set,
\* every chunk's stage states and every chunk's voxel / occl / mesh data
\* are as before.
C11_DroppedJobsChangeNothing ==
    [][\A w \in DOMAIN workers :
          (\/ workers[w].pc = "insert" /\ workers'[w].pc = "idle"
           \/ /\ workers[w].pc = "occl_try"
              /\ workers[w].job.kind = "GenerateMesh"
              /\ workers'[w] # workers[w]
              /\ workers'[w].pc \in {"occl_try", "idle"})
          => chunks' = chunks]_vars

\* C11 witness: a GenerateMesh job was dropped at its occl stage, the chunk
\* is in the Level, and every job has returned.
C11_Witness ==
    \E id \in hist.refused : contains(id) /\ Quiescent
\* Thread w takes a step of operation op.
StepsIn(w, op) ==
    /\ workers[w].pc = "call"
    /\ workers[w].op = op
    /\ workers'[w] # workers[w]

\* C12: try_start_generating returns Ok only from Dirty, and then the
\* state has become Generating; on Done, Generating and GeneratingDirty it
\* returns Err, and whenever it does not return Ok it leaves the state as
\* it was; every time a stage becomes Dirty exactly one caller gets Ok
\* before the stage is next not Dirty.
C12_TryStartExclusive ==
    /\ [](hist.oks = hist.dirtied -
                     (IF chunks[IdA].mesh_state = "Dirty" THEN 1 ELSE 0))
    /\ [][\A w \in DOMAIN workers :
            StepsIn(w, "try_start_generating") =>
                LET st == chunks[IdA].mesh_state
                    st2 == chunks'[IdA].mesh_state IN
                /\ workers'[w].ret = "Ok" =>
                       st = "Dirty" /\ st2 = "Generating"
                /\ workers'[w].ret # "Ok" => st2 = st
                /\ (workers[w].seen = "None" /\ st # "Dirty") =>
                       workers'[w].ret = "Err"
                /\ workers'[w].ret = "Err" => st # "Dirty"]_vars

\* C12 witness: two threads called try_start_generating on a Dirty stage;
\* one got Ok while the other had already loaded Dirty.
C12_Witness ==
    \E w1, w2 \in DOMAIN workers :
        /\ workers[w1].op = "try_start_generating"
        /\ workers[w1].ret = "Ok"
        /\ workers[w2].pc = "call"
        /\ workers[w2].op = "try_start_generating"
        /\ workers[w2].seen = "Dirty"
        /\ chunks[IdA].mesh_state = "Generating"

\* The state changes each operation may make.
AllowedChanges(op) ==
    CASE op = "try_start_generating" -> {<<"Dirty", "Generating">>}
      [] op = "finish_generating" ->
            {<<"Generating", "Done">>, <<"GeneratingDirty", "Dirty">>}
      [] op = "mark_dirty" ->
            {<<"Done", "Dirty">>, <<"Generating", "GeneratingDirty">>}

\* C13: a stage state is always one of the four values, and every step of
\* an operation either leaves the state unchanged or makes one of the
\* changes listed for that operation; so finish_generating on Done or
\* Dirty and mark_dirty on Dirty or GeneratingDirty change nothing.
C13_LegalTransitions ==
    /\ [](chunks[IdA].mesh_state \in DataState)
    /\ [][\A w \in DOMAIN workers, op \in AtomicOps :
            StepsIn(w, op) =>
                \/ chunks'[IdA].mesh_state = chunks[IdA].mesh_state
                \/ <<chunks[IdA].mesh_state, chunks'[IdA].mesh_state>>
                       \in AllowedChanges(op)]_vars

\* C13 witness: all five state changes have been made, and a
\* finish_generating or mark_dirty call has returned.
C13_Witness ==
    /\ Cardinality(hist.changes) = 5
    /\ \E w \in DOMAIN workers :
          workers[w].op \in {"finish_generating", "mark_dirty"}
          /\ workers[w].ret = "Return"
\* Worker w's step is the one in which the call it makes at pc returns.
Leaves(w, pc) == workers[w].pc = pc /\ workers'[w].pc # pc

\* Level::insert returned Ok in worker w's step: the chunk is new.
CreatedAsNew(w) ==
    (workers[w].pc = "insert" /\ workers'[w].pc = "generate") =>
        LET c == chunks'[workers[w].job.id] IN
        /\ c.voxel_state = "Generating"
        /\ c.occl_state = "Done"
        /\ c.mesh_state = "Done"

\* write_occl returned in worker w's step: mesh_state is Dirty.
WriteOcclLeavesMeshDirty(w) ==
    Leaves(w, "wo_dirty_mesh") =>
        chunks'[workers[w].job.id].mesh_state = "Dirty"

\* C14 (as claimed): a chunk created by a job starts with voxel=Generating,
\* occl=Done, mesh=Done; when write_voxel returns its occl_state and
\* mesh_state are both Dirty; when write_occl returns its mesh_state is
\* Dirty.
C14_Original ==
    [][\A w \in DOMAIN workers :
          /\ CreatedAsNew(w)
          /\ Leaves(w, "wv_dirty_mesh") =>
                 /\ chunks'[workers[w].job.id].occl_state = "Dirty"
                 /\ chunks'[workers[w].job.id].mesh_state = "Dirty"
          /\ WriteOcclLeavesMeshDirty(w)]_vars

\* C14 (amended): a chunk created by a job starts with voxel=Generating,
\* occl=Done, mesh=Done; when write_voxel returns, its occl_state is Dirty
\* unless a job has started the occl stage in the meantime, and its
\* mesh_state is Dirty, or GeneratingDirty while a job is generating the
\* mesh; both are Dirty when no GenerateMesh job was pushed for the chunk;
\* when write_occl returns its mesh_state is Dirty.
C14_DirtyAfterWrites ==
    [][\A w \in DOMAIN workers :
          /\ CreatedAsNew(w)
          /\ Leaves(w, "wv_dirty_mesh") =>
                 LET id == workers[w].job.id
                     c == chunks'[id] IN
                 /\ c.occl_state = "Dirty" \/ hist.started[id]["occl"] > 0
                 /\ \/ c.mesh_state = "Dirty"
                    \/ c.mesh_state = "GeneratingDirty"
                          /\ Holders(id, "mesh") # {}
                 /\ "GenerateMesh" \notin hist.pushed[id] =>
                        c.occl_state = "Dirty" /\ c.mesh_state = "Dirty"
          /\ WriteOcclLeavesMeshDirty(w)]_vars

\* C14 witness: write_voxel of a GenerateChunkAndMesh job has returned
\* after a GenerateMesh job started the chunk's occl stage, and that job's
\* write_occl has returned too.
C14_Witness ==
    \E w1, w2 \in DOMAIN workers :
        /\ workers[w1].pc = "occl_try"
        /\ workers[w1].job.kind = Gcam
        /\ workers[w2].pc = "mesh_try"
        /\ workers[w2].job = Job("GenerateMesh", workers[w1].job.id)
        /\ chunks[workers[w1].job.id].occl_state = "Done"

\* the list flood_fill has built so far, or returned last
FloodLists ==
    {frame.flood[k].chunks : k \in 1..Len(frame.flood)}
        \cup {hist.flood_last[k].chunks : k \in 1..Len(hist.flood_last)}

NoDuplicates(l) == \A i, j \in 1..Len(l) : l[i] = l[j] => i = j

\* C15: flood_fill never returns the same ChunkID twice (nor holds it
\* twice in the list it is building), whatever the Frustum.
C15_NoDuplicates == \A l \in FloodLists : NoDuplicates(l)

\* a returned list of MaxChunks chunks, one of them a neighbour of two
\* chunks returned before it: its second visit found it queued
C15_Witness ==
    /\ frame.flood = << >>
    /\ \E n \in 1..Len(hist.flood_last) :
           LET l == hist.flood_last[n].chunks
               IsNeighbor(a, b) == \E m \in 1..6 : chunk_neighbors(a)[m] = b
           IN  /\ Len(l) = MaxChunks
               /\ \E i, j, k \in 1..Len(l) :
                      /\ i < j /\ j < k
                      /\ IsNeighbor(l[i], l[k])
                      /\ IsNeighbor(l[j], l[k])

\* a get_mesh call on the flood-fill path that returns in this step with
\* nothing copied and no job pushed
ReturnsEmpty ==
    /\ frame'.pc = "idle"
    /\ frame'.calls = frame.calls + 1
    /\ frame'.out = << >>
    /\ task_queue' = task_queue
    /\ hist'.pushed = hist.pushed

\* C16: the list flood_fill builds or returns is never longer than
\* max_chunks; with max_chunks = 0 it is empty, and get_mesh on the
\* flood-fill path then returns an empty mesh and pushes no job.
C16_AtMostMaxChunks ==
    /\ [](/\ \A k \in 1..Len(frame.flood) :
                Len(frame.flood[k].chunks) <= frame.flood[k].fr.max_chunks
          /\ \A k \in 1..Len(hist.flood_last) :
                Len(hist.flood_last[k].chunks)
                    <= hist.flood_last[k].fr.max_chunks)
    /\ [][\A fr \in Frustums :
             fr.max_chunks = 0 /\ GetMeshFlood(fr) => ReturnsEmpty]_vars

\* a call with max_chunks = 0 has returned an empty mesh while the call
\* before it returned a full list and left a job on the queue
C16_Witness ==
    /\ frame.pc = "idle"
    /\ frame.calls = 2
    /\ frame.out = << >>
    /\ task_queue # << >>
    /\ \E k \in 1..Len(hist.flood_last) :
           hist.flood_last[k].fr.max_chunks = 0
    /\ \E k \in 1..Len(hist.flood_prev) :
           /\ hist.flood_prev[k].chunks # << >>
           /\ Len(hist.flood_prev[k].chunks)
                  = hist.flood_prev[k].fr.max_chunks

Max(a, b) == IF a >= b THEN a ELSE b

\* ceil(log2(ceil(dist / full_detail))) for a distance whose doubled
\* square is dd (0 at distance 0)
FormulaLod(full_detail, dd) ==
    CHOOSE k \in 0..16 :
        /\ dd <= (2 * full_detail * Pow2(k)) * (2 * full_detail * Pow2(k))
        /\ \A j \in 0..(k - 1) :
               dd > (2 * full_detail * Pow2(j)) * (2 * full_detail * Pow2(j))

\* the doubled squares of the least and of the greatest distance from
\* the camera to a point of the chunk's cube
NearestDD(fr, id) ==
    LET d == [i \in 1..3 |->
                 Max(0, Max(2 * total_pos(id)[i] - CamChunk2(fr)[i],
                            CamChunk2(fr)[i]
                                - 2 * (total_pos(id)[i] + size(id))))]
    IN  Dot(d, d)

FarthestDD(fr, id) ==
    LET d == [i \in 1..3 |->
                 Max(Abs(2 * total_pos(id)[i] - CamChunk2(fr)[i]),
                     Abs(2 * (total_pos(id)[i] + size(id))
                             - CamChunk2(fr)[i]))]
    IN  Dot(d, d)

\* C17: every ChunkID flood_fill returns has the lod of its distance from
\* the camera, lod = ceil(log2(ceil(dist / full_detail_range))), with
\* dist taken at some point of the chunk's cube.
C17_LodOfDistance ==
    \A k \in 1..Len(hist.flood_last) :
        LET fr == hist.flood_last[k].fr
            l  == hist.flood_last[k].chunks
        IN  \A i \in 1..Len(l) :
                /\ FormulaLod(fr.full_detail_range, NearestDD(fr, l[i]))
                       <= l[i].lod
                /\ l[i].lod
                       <= FormulaLod(fr.full_detail_range,
                                     FarthestDD(fr, l[i]))

Selected == frame.pc \in {"copy", "idle"} /\ frame.desired # << >>

\* every mesh_ready(id) of this call's select_render_chunks returned b
Seen(id, b) == <<id, b>> \in hist.reads /\ <<id, ~b>> \notin hist.reads

\* the finer and the coarser entry of a desired list of two
Finer(d) == IF d[1].lod < d[2].lod THEN d[1] ELSE d[2]

Coarser(d) == IF d[1].lod < d[2].lod THEN d[2] ELSE d[1]

\* For a desired list of a chunk and an overlapping coarser chunk, in
\* either order, select_render_chunks returns only the coarser chunk when
\* it finds the finer one's mesh not Done and the coarser one's Done.
CoarserWhenFinerMissing ==
    (/\ Selected
     /\ Seen(Finer(frame.desired), FALSE)
     /\ Seen(Coarser(frame.desired), TRUE))
        => frame.selected = <<Coarser(frame.desired)>>

\* C20 (as claimed): for a desired list of a chunk and an overlapping
\* coarser chunk, in either order, select_render_chunks returns only the
\* coarser chunk when the finer one's mesh is not Done and the coarser
\* one's is, and only the finer chunk when both are Done.
C20_FinerPreferred ==
    /\ CoarserWhenFinerMissing
    /\ (/\ Selected
        /\ Seen(Finer(frame.desired), TRUE)
        /\ Seen(Coarser(frame.desired), TRUE))
           => frame.selected = <<Finer(frame.desired)>>

\* the ancestors of a chunk up to lod MAX_LOD
Ancestors(d) ==
    {ChunkID(d.lod + k, Shr(d.pos, k)) : k \in 1..(MAX_LOD - d.lod)}

\* no mesh_ready call of this call's select_render_chunks has returned
\* both values for one id
StableReads == \A id \in Ids : ~(<<id, TRUE>> \in hist.reads
                                 /\ <<id, FALSE>> \in hist.reads)

\* what a desired id contributes, from what select_render_chunks saw:
\* the id itself if seen Done, else the nearest ancestor seen Done, else
\* nothing
Contribution(d) ==
    LET ready == {a \in Ancestors(d) : <<a, TRUE>> \in hist.reads}
    IN  IF <<d, TRUE>> \in hist.reads THEN <<d>>
        ELSE IF ready = {} THEN << >>
        ELSE <<CHOOSE a \in ready : \A b \in ready : a.lod <= b.lod>>

RECURSIVE Resolved(_, _)
Resolved(d, n) ==
    IF n = 0 THEN << >>
    ELSE LET before == Resolved(d, n - 1)
         IN  IF Contribution(d[n]) = << >> THEN before
             ELSE SelectCandidate(before, Contribution(d[n])[1])

\* C21: select_render_chunks uses each desired id itself if its mesh is
\* Done, otherwise its nearest ancestor up to lod MAX_LOD whose mesh is
\* Done, otherwise nothing; every id it returns is a desired id or an
\* ancestor of one, and was seen Done when examined.
C21_NearestReadyAncestor ==
    Selected =>
        /\ \A k \in 1..Len(frame.selected) :
              /\ <<frame.selected[k], TRUE>> \in hist.reads
              /\ \E j \in 1..Len(frame.desired) :
                    \/ frame.selected[k] = frame.desired[j]
                    \/ frame.selected[k] \in Ancestors(frame.desired[j])
        /\ StableReads =>
              frame.selected = Resolved(frame.desired, Len(frame.desired))

\* a list of two has been resolved: both ids were seen not Done and
\* replaced by their common parent, seen Done
C21_Witness ==
    /\ Selected
    /\ StableReads
    /\ Len(frame.desired) = 2
    /\ \A j \in 1..2 : <<frame.desired[j], FALSE>> \in hist.reads
    /\ frame.selected = <<parent(frame.desired[1])>>

\* floor(x / 2^k) per axis
FloorShift(v, k) == [i \in 1..3 |-> v[i] \div Pow2(k)]

\* the chunk at lod k that covers a world voxel, and the voxel's index
\* in it
CoveringChunk(pos, k) == ChunkID(k, FloorShift(pos, k + 5))

CoveringLocal(pos, k) == [i \in 1..3 |-> FloorShift(pos, k)[i] % 32]

\* solid_at found voxel data in the chunk of lod k that covers pos
FoundData(pos, k) ==
    \E e \in hist.examined : e.id = CoveringChunk(pos, k) /\ e.data

\* solid_at has returned
SolidReturned == frame.pc = "idle" /\ frame.solid_ret # << >>

\* C22: solid_at(world) returns the solidity of voxel[world mod 32] of the
\* lod-0 chunk at world div 32 when that chunk has voxel data, otherwise
\* of the voxel covering world in the lowest-lod chunk up to MAX_LOD that
\* has voxel data: chunk pos floor(world / (32 * 2^k)), index
\* floor(world / 2^k) mod 32, for negative coordinates too.
C22_SolidAtReadsCoveringVoxel ==
    SolidReturned =>
        LET pos   == frame.solid[1].pos
            found == {k \in 0..MAX_LOD : FoundData(pos, k)}
        IN  /\ \A e \in hist.examined :
                  \E k \in 0..MAX_LOD :
                      /\ e.id = CoveringChunk(pos, k)
                      /\ e.local_pos = CoveringLocal(pos, k)
            /\ \A k \in found :
                  /\ frame.solid_ret[1] =
                        is_physically_solid(
                            chunks[CoveringChunk(pos, k)].voxel[1],
                            CoveringLocal(pos, k))
                  /\ \A j \in 0..(k - 1) :
                        \E e \in hist.examined :
                            e.id = CoveringChunk(pos, j) /\ ~e.data

\* solid_at has answered from the lod-1 chunk, at an index with the
\* chunk's low bit in it, after finding the lod-0 chunk without data
C22_Witness ==
    /\ SolidReturned
    /\ FoundData(frame.solid[1].pos, 1)
    /\ frame.solid_ret[1].at = <<20, 20, 0>>

\* a step of solid_at: the caller moves, into or within solid_at
SolidAtMoves == frame' # frame /\ (frame.pc = "solid" \/ frame'.pc = "solid")

\* C23: solid_at returns true when no chunk covering the coordinate at a
\* lod 0..MAX_LOD has voxel data, chunks inserted without voxel data
\* included, and no step of solid_at changes the Level, a chunk or the
\* job queue.
C23_UnknownIsSolid ==
    /\ [](SolidReturned =>
             LET pos == frame.solid[1].pos
             IN  (\A k \in 0..MAX_LOD : ~FoundData(pos, k))
                    => /\ frame.solid_ret[1] = SolidUnknown
                       /\ \A k \in 0..MAX_LOD :
                             \E e \in hist.examined :
                                 e.id = CoveringChunk(pos, k) /\ ~e.data)
    /\ [][SolidAtMoves =>
             /\ chunks' = chunks
             /\ task_queue' = task_queue
             /\ workers' = workers]_vars

\* solid_at has returned `true` after meeting a chunk that was in the
\* Level without voxel data
C23_Witness ==
    /\ SolidReturned
    /\ frame.solid_ret[1] = SolidUnknown
    /\ \E e \in hist.examined : e.present /\ ~e.data

\* The voxel at position q of chunk c, Air when c is not in the Level or
\* holds no voxel data.
VoxelOf(c, q) ==
    IF c \in DOMAIN chunks /\ chunks[c].voxel # None
       /\ q \in DOMAIN chunks[c].voxel[1]
    THEN chunks[c].voxel[1][q]
    ELSE "Air"

\* The positions of chunk c that hold a voxel other than Air.
SolidPositions(c) ==
    IF c \in DOMAIN chunks /\ chunks[c].voxel # None
    THEN {p \in DOMAIN chunks[c].voxel[1] : chunks[c].voxel[1][p] # "Air"}
    ELSE {}

InChunk(q) == \A i \in 1..3 : q[i] \in Axis

\* The voxel next to position p of chunk id in direction k (0..5 = -x, +x,
\* -y, +y, -z, +z): in the chunk itself, or across its border in the
\* adjacent chunk of the same lod.
AdjacentVoxel(id, k, p) ==
    LET q == VecAdd(p, AxisOffsets[k + 1]) IN
    IF InChunk(q) THEN VoxelOf(id, q)
    ELSE VoxelOf(Neighbor(id, AxisOffsets[k + 1]), [i \in 1..3 |-> q[i] % 32])

\* The faces of chunk id that are exposed: <<k, p>> with p solid and the
\* voxel next to it in direction k air.
Exposed(id) ==
    {f \in (0..5) \X SolidPositions(id) :
        AdjacentVoxel(id, f[1], f[2]) = "Air"}

\* The voxel position that bit b of faces[k][i][j] stands for.
BitPosition(k, i, j, b) ==
    CASE k \in {0, 1} -> <<31 - b, i, j>>
      [] k \in {2, 3} -> <<j, 31 - b, i>>
      [] k \in {4, 5} -> <<i, j, 31 - b>>

\* All the bits set in the six maps, as <<k, p>>.
SetFaces(faces) ==
    UNION {{<<k, BitPosition(k, i, j, b)>> : b \in faces[k][i][j]} :
           k \in 0..5, i \in Axis, j \in Axis}

\* C24: for every chunk, direction k and voxel position p, map_visible sets
\* the bit of (p, k) iff the voxel at p is solid and the voxel next to it in
\* direction k is air, the voxel across the chunk's border being read from
\* the adjacent chunk of the same lod and being air when that chunk is absent
\* or holds no voxel data.
C24_MapVisibleExposedFaces ==
    workers[1].pc \in {"generate_mesh", "done"} =>
        LET id == workers[1].job.id
            faces == workers[1].occl_maps[1]
            set == SetFaces(faces)
            exposed == Exposed(id)
        IN  /\ set = exposed
            /\ \A f \in set \cup exposed :
                  FaceSet(faces, f[1], f[2]) <=> f \in exposed

\* map_visible ran on a chunk with a solid border voxel hidden by a solid
\* voxel of an adjacent chunk and with another border face exposed towards a
\* chunk that is absent from the Level.
C24_Witness ==
    /\ workers[1].pc = "generate_mesh"
    /\ LET id == workers[1].job.id
           faces == workers[1].occl_maps[1]
           border == {f \in (0..5) \X DOMAIN chunks[id].voxel[1] :
                         ~InChunk(VecAdd(f[2], AxisOffsets[f[1] + 1]))}
       IN  /\ chunks[id].voxel # None
           /\ \E f \in border :
                 /\ AdjacentVoxel(id, f[1], f[2]) # "Air"
                 /\ ~FaceSet(faces, f[1], f[2])
           /\ \E f \in border :
                 /\ Neighbor(id, AxisOffsets[f[1] + 1]) \notin DOMAIN chunks
                 /\ FaceSet(faces, f[1], f[2])

\* Instance.pos of the voxel at position p of chunk id.
InstancePos(id, p) ==
    [i \in 1..3 |-> (id.pos[i] * 32 + p[i]) * Pow2(id.lod)]

\* The number of Instances of all six buckets.
TotalInstances(mesh) ==
    Len(mesh[0]) + Len(mesh[1]) + Len(mesh[2]) + Len(mesh[3]) + Len(mesh[4])
    + Len(mesh[5])

\* Two positions that differ by one along one axis.
Touching(p, q) ==
    Abs(p[1] - q[1]) + Abs(p[2] - q[2]) + Abs(p[3] - q[3]) = 1

\* A position with all six adjacent voxels in the chunk itself.
Interior(p) == \A i \in 1..3 : p[i] \in 1..30

\* C25: the mesh built for a chunk holds, in bucket k, exactly one Instance
\* for each non-air voxel whose face in direction k is exposed, and no other
\* Instance, so none for a face between two solid voxels (one isolated solid
\* voxel gives 6 Instances, two adjacent ones 10); the Instance has
\* pos = (chunk.pos * 32 + local) << lod and kind = (lod << 16) | texture_id,
\* so the lod in its kind is the ChunkID's lod.
C25_OneInstancePerExposedFace ==
    workers[1].pc = "done" =>
        LET id == workers[1].job.id
            mesh == workers[1].mesh[1]
            exposed == Exposed(id)
            solid == SolidPositions(id)
        IN  /\ \A k \in 0..5 :
                  /\ Len(mesh[k]) = Cardinality({f \in exposed : f[1] = k})
                  /\ \A f \in {g \in exposed : g[1] = k} :
                        \E n \in 1..Len(mesh[k]) :
                            /\ mesh[k][n].pos = InstancePos(id, f[2])
                            /\ mesh[k][n].kind =
                                   id.lod * 65536
                                   + VoxelCode(chunks[id].voxel[1][f[2]]) - 1
                            /\ mesh[k][n].kind \div 65536 = id.lod
                            /\ \A m \in 1..Len(mesh[k]) :
                                   mesh[k][m].pos = mesh[k][n].pos => m = n
            /\ (Cardinality(solid) = 1 /\ \A p \in solid : Interior(p))
                   => TotalInstances(mesh) = 6
            /\ (/\ Cardinality(solid) = 2
                /\ \A p \in solid : Interior(p)
                /\ \A p \in solid, q \in solid : p # q => Touching(p, q))
                   => TotalInstances(mesh) = 10

\* The mesh of a lod-1 chunk that holds two adjacent solid voxels was built.
C25_Witness ==
    /\ workers[1].pc = "done"
    /\ workers[1].job.id.lod = 1
    /\ Cardinality(SolidPositions(workers[1].job.id)) = 2
    /\ \E p \in SolidPositions(workers[1].job.id),
          q \in SolidPositions(workers[1].job.id) : Touching(p, q)
    /\ TotalInstances(workers[1].mesh[1]) = 10

\* A step of Threadpool::push: one job more at the back of the queue, no
\* worker moved.
Enqueued ==
    /\ \E k \in JobKinds, id \in Ids :
          task_queue' = Append(task_queue, Job(k, id))
    /\ workers' = workers

\* A step of the worker loop's steal: the job at the front of the queue left
\* it and exactly one worker, idle before, is at the start of that job's run.
Dequeued ==
    /\ task_queue # << >>
    /\ task_queue' = Tail(task_queue)
    /\ \E w \in DOMAIN workers :
          /\ workers[w].pc = "idle"
          /\ workers'[w].job = Head(task_queue)
          /\ workers'[w].pc = JobEntry(Head(task_queue).kind)
          /\ \A v \in DOMAIN workers \ {w} : workers'[v] = workers[v]

\* The steps that change the queue or start a job's run.
QueueMoves ==
    \/ task_queue' # task_queue
    \/ \E w \in DOMAIN workers :
          workers[w].pc = "idle" /\ workers'[w].pc # "idle"

OneSnapshot(part) ==
    \A a \in 1..Len(part), b \in 1..Len(part) : part[a].mesh = part[b].mesh

\* C27: the buckets get_mesh copies from one chunk all come from one value
\* of the chunk's mesh, and no write_mesh on the chunk takes effect between
\* the copy's taking and dropping of the mesh's read lock: a concurrent
\* write_mesh is entirely before or entirely after the copy.
C27_BucketsFromOneWrite ==
    /\ [](/\ OneSnapshot(frame.part)
          /\ \A n \in 1..Len(frame.out) : OneSnapshot(frame.out[n].part))
    /\ [][\A id \in Ids :
            MeshReadLocked(id) => chunks'[id].mesh = chunks[id].mesh]_vars

\* get_mesh has copied some but not all buckets of a chunk while a worker
\* is at the write_mesh of another mesh for that chunk.
C27_Witness ==
    /\ frame.pc = "copy_bucket"
    /\ Len(frame.part) >= 1
    /\ frame.bucket <= Len(BucketOrder)
    /\ \E w \in DOMAIN workers :
          /\ workers[w].pc = "wm_mesh"
          /\ workers[w].job.id = frame.selected[frame.i]
          /\ BuiltMesh(w) # chunks[frame.selected[frame.i]].mesh

\* The lod-0 chunk positions a chunk covers on axis i: from Low up to, not
\* including, High.
CellLow(id, i) == id.pos[i] * Pow2(id.lod)

CellHigh(id, i) == (id.pos[i] + 1) * Pow2(id.lod)

\* The world cells of two chunks intersect.
CellsIntersect(a, b) ==
    \A i \in 1..3 :
        /\ CellLow(a, i) < CellHigh(b, i)
        /\ CellLow(b, i) < CellHigh(a, i)

\* f.pos shifted right by the difference of the lods is c.pos, for a chunk
\* f of a lod not above c's: c.pos * 2^d <= f.pos < (c.pos + 1) * 2^d.
ShiftedEquals(f, c) ==
    \A i \in 1..3 :
        /\ c.pos[i] * Pow2(c.lod - f.lod) <= f.pos[i]
        /\ f.pos[i] < (c.pos[i] + 1) * Pow2(c.lod - f.lod)

RECURSIVE ParentTimes(_, _)
ParentTimes(id, n) == IF n = 0 THEN id ELSE ParentTimes(parent(id), n - 1)

\* c is id's parent, or its parent's parent, and so on.
IsAncestor(c, id) == c.lod > id.lod /\ ParentTimes(id, c.lod - id.lod) = c

\* C28: chunk_overlaps(a, b) = chunk_overlaps(b, a), and it is true exactly
\* when the pos of the id of lower lod, shifted right by the difference of
\* the lods, is the other id's pos (the two pos are equal at equal lod),
\* which is exactly when the world cells of the two chunks intersect; every
\* chunk overlaps each of its ancestors.
C28_ChunkOverlaps ==
    workers[1].pc = "overlaps" =>
        LET a == workers[1].a
            b == workers[1].b
            r == workers[1].overlaps[1]
        IN  /\ r.ab = r.ba
            /\ r.ab <=> IF a.lod <= b.lod THEN ShiftedEquals(a, b)
                        ELSE ShiftedEquals(b, a)
            /\ a.lod = b.lod => (r.ab <=> a.pos = b.pos)
            /\ r.ab <=> CellsIntersect(a, b)
            /\ IsAncestor(b, a) => r.ab
            /\ IsAncestor(a, b) => r.ab

\* chunk_overlaps was called on a chunk at a negative position and its
\* parent's parent, finer chunk first, and returned true.
C28_Witness ==
    /\ workers[1].pc = "overlaps"
    /\ workers[1].a.lod = 0
    /\ workers[1].b.lod = 2
    /\ \E i \in 1..3 : workers[1].a.pos[i] < 0 /\ workers[1].a.pos[i] % 4 # 0
    /\ IsAncestor(workers[1].b, workers[1].a)
    /\ workers[1].overlaps[1].ab

\* C29: for every ChunkID id, negative coordinates included, id.parent()
\* has lod = id.lod + 1 and, on each axis,
\* 2 * parent.pos <= id.pos < 2 * parent.pos + 2.
C29_ParentHalves ==
    workers[1].pc \in {"parent", "overlaps"} =>
        LET id == workers[1].a
            p == workers[1].parent[1]
        IN  /\ p.lod = id.lod + 1
            /\ \A i \in 1..3 :
                  /\ 2 * p.pos[i] <= id.pos[i]
                  /\ id.pos[i] < 2 * p.pos[i] + 2

\* parent was called on a chunk with an odd negative coordinate.
C29_Witness ==
    /\ workers[1].pc = "parent"
    /\ \E i \in 1..3 : workers[1].a.pos[i] < 0 /\ workers[1].a.pos[i] % 2 = 1
    /\ workers[1].parent[1].lod = workers[1].a.lod + 1

\* flood_fill's state before and after one iteration of its loop.
FloodBefore == frame.flood[1]

\* The chunk the iteration pops.
Popped == Head(FloodBefore.candidates)

\* The iteration accepts the popped chunk and goes through its neighbours.
Visiting ==
    /\ frame.pc = "flood"
    /\ in_frustum(FloodBefore.fr, Popped)
    /\ Len(FloodBefore.chunks) + 1 < FloodBefore.fr.max_chunks

\* The neighbours of the popped chunk that were not in already_queued.
NewNeighbors ==
    {chunk_neighbors(Popped)[k] : k \in 1..6} \ FloodBefore.already_queued

\* The desired lod of a neighbour.
DesiredLod(n) ==
    lod_level_at(FloodBefore.fr.full_detail_range, CamChunk2(FloodBefore.fr),
                 EvenPos2(n))

SeqRange(s) == {s[k] : k \in 1..Len(s)}

\* The ids on the two queues after the iteration; both queues are empty
\* when the loop was left.  All ids on the current-lod queue have the lod
\* of the popped chunk, those of the next-lod queue the lod above it.
QueuedBefore ==
    SeqRange(FloodBefore.candidates)
        \cup SeqRange(FloodBefore.next_lods_candidates)

QueuedAfter ==
    IF frame'.pc = "flood"
    THEN SeqRange(frame'.flood[1].candidates)
             \cup SeqRange(frame'.flood[1].next_lods_candidates)
    ELSE {}

QueuedLengthAfter ==
    IF frame'.pc = "flood"
    THEN Len(frame'.flood[1].candidates)
             + Len(frame'.flood[1].next_lods_candidates)
    ELSE 0

OnCurrentAfter(n) == n \in QueuedAfter /\ n.lod = Popped.lod

OnNextAfter(n) == n \in QueuedAfter /\ n.lod = Popped.lod + 1

\* C30, as stated: the parent of a newly seen neighbour of desired lod above
\* the chunk's is on the next-lod queue, and every other newly seen
\* neighbour is itself on the current-lod queue.
C30_Original ==
    [][Visiting =>
        \A n \in NewNeighbors :
            IF DesiredLod(n) > Popped.lod
            THEN OnNextAfter(parent(n))
            ELSE OnCurrentAfter(n)]_vars

\* C30: for each newly seen neighbour of an accepted chunk: when its
\* desired lod is above the chunk's, its parent is on the next-lod queue
\* (put there now, or earlier for another neighbour, never twice) and the
\* neighbour is not queued; when its desired lod is the chunk's, the
\* neighbour is on the current-lod queue; when its desired lod is below the
\* chunk's, neither the neighbour nor its parent is queued for it.  Nothing
\* else is put on a queue.
C30_NeighborQueued ==
    [][Visiting =>
        LET above == {n \in NewNeighbors : DesiredLod(n) > Popped.lod}
            equal == {n \in NewNeighbors : DesiredLod(n) = Popped.lod}
            below == {n \in NewNeighbors : DesiredLod(n) < Popped.lod}
            parents == {parent(n) : n \in above} \ FloodBefore.already_queued
        IN  /\ \A n \in above : OnNextAfter(parent(n)) /\ n \notin QueuedAfter
            /\ \A n \in equal : OnCurrentAfter(n)
            /\ \A n \in below : n \notin QueuedAfter
            /\ QueuedAfter = (QueuedBefore \ {Popped}) \cup equal \cup parents
            /\ QueuedLengthAfter =
                   Len(FloodBefore.candidates) - 1
                   + Len(FloodBefore.next_lods_candidates)
                   + Cardinality(equal) + Cardinality(parents)]_vars

\* flood_fill is at a lod-1 chunk it will accept, with a neighbour not seen
\* before whose desired lod is 0, and also one whose desired lod is above 1
\* and whose parent is not queued yet.
C30_Witness ==
    /\ frame.pc = "flood"
    /\ in_frustum(FloodBefore.fr, Popped)
    /\ Len(FloodBefore.chunks) + 1 < FloodBefore.fr.max_chunks
    /\ Popped.lod = 1
    /\ \E n \in NewNeighbors : DesiredLod(n) < Popped.lod
    /\ \E n \in NewNeighbors :
          /\ DesiredLod(n) > Popped.lod
          /\ parent(n) \notin FloodBefore.already_queued

\* The ids flood_fill has accepted so far, and the ids it returns when the
\* iteration leaves the loop.
AcceptedBefore == FloodBefore.chunks

FloodLeft == frame.pc = "flood" /\ frame'.pc # "flood"

FloodGoesOn == frame.pc = "flood" /\ frame'.pc = "flood"

\* The iteration puts an id on one of the two queues.
EnqueuesSome ==
    /\ in_frustum(FloodBefore.fr, Popped)
    /\ \E n \in NewNeighbors :
          \/ DesiredLod(n) = Popped.lod
          \/ /\ DesiredLod(n) > Popped.lod
             /\ parent(n) \notin FloodBefore.already_queued

\* One iteration of the loop, as C31 has it.
FloodEndsRight ==
    /\ FloodLeft =>
          /\ Len(frame'.desired) <= FloodBefore.fr.max_chunks
          /\ \/ Len(frame'.desired) = FloodBefore.fr.max_chunks
             \/ /\ FloodBefore.next_lods_candidates = << >>
                /\ Len(FloodBefore.candidates) = 1
                /\ ~EnqueuesSome
    /\ FloodGoesOn =>
          /\ Len(frame'.flood[1].chunks) < FloodBefore.fr.max_chunks
          /\ QueuedBefore \ {Popped} \subseteq QueuedAfter
          /\ frame'.flood[1].candidates # << >>
    /\ (frame.pc = "flood" /\ ~in_frustum(FloodBefore.fr, Popped)) =>
          /\ IF FloodLeft THEN frame'.desired = AcceptedBefore
             ELSE /\ frame'.flood[1].chunks = AcceptedBefore
                  /\ frame'.flood[1].already_queued
                         = FloodBefore.already_queued
          /\ QueuedAfter = QueuedBefore \ {Popped}

\* Every id accepted so far passed the plane tests of the frustum.
AcceptedInFrustum ==
    frame.pc = "flood" =>
        \A k \in 1..Len(AcceptedBefore) :
            in_frustum(FloodBefore.fr, AcceptedBefore[k])

\* C31: flood_fill terminates; it leaves its loop only with max_chunks
\* accepted ids or with both queues empty and nothing more to put on them,
\* so an id on the next-lod queue stays queued until it is popped unless
\* max_chunks is reached first; a chunk that fails the plane tests is not
\* added to the result and none of its neighbours is looked at.
C31_FloodFillTerminates ==
    /\ [](frame.pc = "flood" => <>(frame.pc # "flood"))
    /\ [][FloodEndsRight]_vars
    /\ []AcceptedInFrustum

\* flood_fill has returned fewer than max_chunks ids, the last of them of a
\* lod above 0: it went through the next-lod queue until both queues were
\* empty, and it rejected chunks on the way (fewer ids were accepted than
\* were queued).
C31_Witness ==
    /\ frame.pc = "flooded"
    /\ Len(frame.desired) < hist.flood_last[1].fr.max_chunks
    /\ frame.desired # << >>
    /\ frame.desired[Len(frame.desired)].lod > 0
    /\ \E k \in 1..Len(frame.desired) : frame.desired[k].lod = 0

\* The ids flood_fill holds (accepted, or on one of its queues), the ids
\* get_mesh was handed by it, and the ids select_render_chunks walks
\* through and emits.
FloodIds ==
    IF frame.pc = "flood"
    THEN SeqRange(FloodBefore.chunks) \cup QueuedBefore
    ELSE {}

WalkIds ==
    IF frame.pc \in {"sel_walk", "sel_last"} THEN {frame.next} ELSE {}

EmittedIds ==
    SeqRange(frame.selected) \cup {frame.out[k].id : k \in 1..Len(frame.out)}

\* C32: no id accepted or queued by flood_fill, none it returns, and none
\* select_render_chunks reaches on its ancestor walk or emits for that
\* result, has a lod above MAX_LOD.
C32_LodAtMostMaxLod ==
    \A id \in FloodIds \cup SeqRange(frame.desired) \cup WalkIds
                \cup EmittedIds :
        id.lod <= MAX_LOD

\* The flood_fill of the call before returned a chunk of lod MAX_LOD; in
\* this call select_render_chunks has emitted a chunk and its ancestor walk
\* for another desired id has reached lod MAX_LOD.
C32_Witness ==
    /\ frame.pc = "sel_last"
    /\ frame.next.lod = MAX_LOD
    /\ frame.selected # << >>
    /\ hist.flood_prev # << >>
    /\ \E k \in 1..Len(hist.flood_prev[1].chunks) :
          hist.flood_prev[1].chunks[k].lod = MAX_LOD

\* A worker thread has ended in a panic of the generator.
Panicked(w) == workers[w].pc = "dead"

\* C33 (as claimed): after a panic of the generator the chunk of the
\* panicking job stays in the Level with voxel_state Generating, and the
\* pool goes on: whatever job is on the queue is taken by a worker.
C33_PoolSurvivesPanic ==
    /\ [](\A w \in DOMAIN workers :
            Panicked(w) =>
                /\ contains(workers[w].job.id)
                /\ chunks[workers[w].job.id].voxel_state = "Generating")
    /\ []((\E w \in DOMAIN workers : Panicked(w)) => <>(task_queue = << >>))

\* Both runs are over.
BothRun == hist.equiv.phase = "mesh" /\ Quiet

\* C34: started on a quiet pool with id absent from the Level,
\* GenerateChunkAndMesh(id) ends with the same Level (keys, states of the
\* three stages, voxel, occlusion and mesh data of every chunk) as
\* GenerateChunk(id) followed by GenerateMesh(id) started from the same
\* Level.
C34_SameLevelAsTwoJobs == BothRun => chunks = hist.equiv.first

\* Both runs are over on a Level that held a neighbour of the chunk with
\* voxel data before; the chunk is in the Level with voxel data, the
\* occlusion and mesh stages Done and a mesh built from its voxels.
C34_Witness ==
    /\ BothRun
    /\ hist.equiv.id = IdA
    /\ IdB \in DOMAIN hist.equiv.base
    /\ hist.equiv.base[IdB].voxel # None
    /\ chunks[IdA].voxel # None
    /\ chunks[IdA].occl_state = "Done"
    /\ chunks[IdA].mesh_state = "Done"
    /\ chunks[IdA].mesh # MeshNew

\* The elements of an ArrayQueue from the oldest to the newest.
Contents(q) ==
    [k \in 1..q.len |-> assume_init(q.buffer[(q.start + k - 1) % q.cap])]

\* What a call on a FIFO queue holding `before` returns.
FifoAnswer(before, ret) ==
    CASE ret.op = "pop_front" ->
            ret.val = IF before = << >> THEN None ELSE Some(Head(before))
      [] ret.op = "first" ->
            ret.val = IF before = << >> THEN None ELSE Some(Head(before))
      [] ret.op = "index" -> ret.val = before[ret.arg + 1]
      [] ret.op = "eq" -> ret.val = (ret.arg = before)
      [] OTHER -> TRUE

\* The queue holds the elements pushed and not yet popped, in the order of
\* their insertion, and every call returned what a FIFO queue returns.
QueueIsFifo ==
    /\ workers[1].pc = "queue"
    /\ workers'[1].pc = "queue"
    /\ workers'[1].q.len <= workers'[1].q.cap
    /\ Contents(workers'[1].q) = workers'[1].model
    /\ FifoAnswer(workers[1].model, workers'[1].ret)

\* C35 (as claimed): for every element type, an ArrayQueue of a
\* power-of-two capacity used through push_back (with len < CAP),
\* pop_front, first, indexing and equality is a FIFO queue.
C35_ArrayQueueFifo == [][QueueIsFifo]_vars

\* The same for an element type without drop glue.
ArrayQueueFifoNoDrop == [][~workers[1].drops => QueueIsFifo]_vars

\* A queue of capacity 2 whose start has wrapped around holds two elements,
\* the older one in slot 1 and the newer one in slot 0.
WrappedQueue ==
    /\ workers[1].pc = "queue"
    /\ workers[1].q.cap = 2
    /\ workers[1].q.start = 1
    /\ workers[1].q.len = 2
    /\ ~workers[1].drops

\* A stage of a chunk of the Level is GeneratingDirty.
StageIs(id, stage, st) ==
    CASE stage = "voxel" -> chunks[id].voxel_state = st
      [] stage = "occl" -> chunks[id].occl_state = st
      [] stage = "mesh" -> chunks[id].mesh_state = st

\* A GenerateMesh job is between its mesh_state.try_start_generating and
\* the end of its write_mesh on the chunk.
MeshJobGenerating(id) ==
    \E w \in DOMAIN workers :
        /\ workers[w].job = Job("GenerateMesh", id)
        /\ workers[w].pc \in {"read_voxel", "wm_mesh", "wm_finish"}

\* C36 (as claimed): no stage of a chunk is ever GeneratingDirty, and the
\* voxels of a chunk are written at most once.
C36_Original ==
    /\ \A id \in DOMAIN chunks, stage \in {"voxel", "occl", "mesh"} :
          ~StageIs(id, stage, "GeneratingDirty")
    /\ \A id \in Ids : hist.voxel_writes[id] <= 1

\* C36: the voxels of a chunk are written at most once and each of the two
\* later stages is started at most once; voxel_state and occl_state are
\* never GeneratingDirty; mesh_state is GeneratingDirty only while a
\* GenerateMesh job generates the chunk's mesh (the mark_dirty of another
\* job's write_voxel came after that job had started the mesh stage).
C36_DirtyWhileGeneratingOnlyMesh ==
    /\ \A id \in Ids :
          /\ hist.voxel_writes[id] <= 1
          /\ hist.started[id]["occl"] <= 1
          /\ hist.started[id]["mesh"] <= 1
    /\ \A id \in DOMAIN chunks :
          /\ ~StageIs(id, "voxel", "GeneratingDirty")
          /\ ~StageIs(id, "occl", "GeneratingDirty")
          /\ StageIs(id, "mesh", "GeneratingDirty") => MeshJobGenerating(id)

\* The mesh stage of a chunk is GeneratingDirty: a GenerateMesh job is
\* generating the mesh, and the job that wrote the chunk's voxels has
\* returned.
C36_Witness ==
    \E id \in DOMAIN chunks :
        /\ StageIs(id, "mesh", "GeneratingDirty")
        /\ hist.voxel_writes[id] = 1
        /\ \E w \in DOMAIN workers : workers[w].pc = "idle"

\* C37: the system is deadlock-free.  A thread (a job, get_mesh, solid_at)
\* asks for the Level lock only while it holds no lock, asks for a lock of
\* a chunk only while it holds no lock but the Level read lock, as long as
\* some thread has not finished some thread can take a step, and under any
\* interleaving every job and every call runs to its end.
AsksFor(t) ==
    IF ThreadDone(t) \/ NextOp(t).op \notin {"read", "write"} \/ Skipped(NextOp(t))
    THEN "nothing"
    ELSE IF NextOp(t).lock = LevelLock THEN "level" ELSE "data"

LockOrder ==
    \A t \in 1..NumLockThreads :
        /\ AsksFor(t) = "level" => workers[t].holds = {}
        /\ AsksFor(t) = "data" =>
               workers[t].holds \subseteq {[lock |-> LevelLock, mode |-> "read"]}
        /\ Cardinality(workers[t].holds) <= 2

CanStep(t) ==
    /\ ~ThreadDone(t)
    /\ \/ NextOp(t).op \in {"insert", "release", "maybe_return"}
       \/ Skipped(NextOp(t))
       \/ /\ NextOp(t).op = "read"
          /\ LockWriters(NextOp(t).lock) = {}
          /\ WaitingWriters(NextOp(t).lock) = {}
       \/ /\ NextOp(t).op = "write"
          /\ ~workers[t].waiting \/ LockHolders(NextOp(t).lock) = {}

SomeThreadRuns ==
    (\E t \in 1..NumLockThreads : ~ThreadDone(t))
        => \E t \in 1..NumLockThreads : CanStep(t)

AllThreadsDone == \A t \in 1..NumLockThreads : ThreadDone(t)

C37_DeadlockFree ==
    /\ [](LockOrder /\ SomeThreadRuns)
    /\ <>AllThreadsDone

\* A worker waits for the Level write lock while the other worker holds the
\* Level read lock and waits for the mesh write lock of a chunk whose mesh
\* read lock the get_mesh call holds.
C37_Witness ==
    \E t, u \in 1..NumLockWorkers :
        /\ workers[t].waiting
        /\ NextOp(t).lock = LevelLock
        /\ AsksFor(u) = "data"
        /\ NextOp(u).lock.kind = "mesh"
        /\ workers[u].holds # {}
        /\ LockHolders(NextOp(u).lock) = {FrameThread}

\* C38: no two ChunkIDs returned by one flood_fill call overlap: the
\* result never holds a chunk together with one of its ancestors.
C38_FloodResultDisjoint ==
    \A k \in 1..Len(hist.flood_last) :
        LET l == hist.flood_last[k].chunks IN
        \A i, j \in 1..Len(l) : i # j => ~chunk_overlaps(l[i], l[j])

\* C39: select_render_chunks never emits the same ChunkID twice, also when
\* several desired ids fall back to the same ancestor and when an ancestor
\* used as a fallback is itself in the desired list: at every point of the
\* selection, and in what get_mesh copies afterwards, the entries of
\* `selected` are pairwise different.
C39_NoChunkSelectedTwice ==
    /\ \A j, k \in 1..Len(frame.selected) :
           j # k => frame.selected[j] # frame.selected[k]
    /\ \A j, k \in 1..Len(frame.out) : j # k => frame.out[j].id # frame.out[k].id

\* The selection is over for the desired list [A, B, P]: mesh_ready was
\* false for A and for B and true every time for their parent P, so A and B
\* both fell back to P, P came up a third time as itself, and P was
\* selected.
C39_Witness ==
    /\ frame.pc = "copy"
    /\ frame.desired = <<IdA, IdB, IdP>>
    /\ frame.selected = <<IdP>>
    /\ {<<IdA, FALSE>>, <<IdB, FALSE>>, <<IdP, TRUE>>} \subseteq hist.reads
    /\ <<IdP, FALSE>> \notin hist.reads

====
